---- MODULE Spec2Model ----
(***************************************************************************)
(* A model of smart-docker-build's build-decision engine: one run of the   *)
(* action entrypoint (main) and of generateBuildArgs, with the helper      *)
(* functions of lib.ts as operators.                                       *)
(*                                                                         *)
(* Strings are sequences of one-character strings, so that the string      *)
(* operations of the source (startsWith, replace, split, slice, trim) are  *)
(* computed rather than assumed.  JavaScript's undefined / null / value    *)
(* distinction is kept with tagged records: [kind |-> "undefined"],        *)
(* [kind |-> "null"], [kind |-> "list", items |-> ...],                    *)
(* [kind |-> "str", s |-> ...].                                            *)
(***************************************************************************)
EXTENDS Integers, Sequences, FiniteSets, TLC

VARIABLES
    pc,                 \* position of the run inside main / generateBuildArgs
    token,              \* getInput('repository_token')
    timezone,           \* getInput('timezone')
    payload,            \* github.context.payload
    projectConfig,      \* result of loadProjectConfig
    gitRef,             \* result of parseGitRef: [branch, tag]
    changedFiles,       \* compare.data.files || [] (filenames)
    dockerfiles,        \* the files findDockerfiles returned: [path, lines]
    imageBuildSpecs,    \* the ImageBuildSpec list
    templateVariables,  \* result of createTemplateVariables (ordered entries)
    idx,                \* index of the next spec of the decision loop
    registry,           \* registry answer seen for each image of the loop
    lookups,            \* every registry request made: [image, package, tag]
    outputs,            \* the local ActionResult[] of generateBuildArgs
    error,              \* the Error thrown, NoError while none
    buildArgs,          \* what generateBuildArgs returned to main
    actionOutputs,      \* setOutput / setFailed calls of the entrypoint
    diffFetches,        \* number of getRepositoryChanges calls
    call,               \* function harness: the call under test
    ret                 \* function harness: its result

vars == << pc, token, timezone, payload, projectConfig, gitRef, changedFiles,
           dockerfiles, imageBuildSpecs, templateVariables, idx, registry,
           lookups, outputs, error, buildArgs, actionOutputs, diffFetches,
           call, ret >>

runVars == << pc, token, timezone, payload, projectConfig, gitRef,
              changedFiles, dockerfiles, imageBuildSpecs, templateVariables,
              idx, registry, lookups, outputs, error, buildArgs,
              actionOutputs, diffFetches >>

-----------------------------------------------------------------------------
(* JavaScript values *)

Undefined == [kind |-> "undefined"]
Null == [kind |-> "null"]
Str(s) == [kind |-> "str", s |-> s]
List(items) == [kind |-> "list", items |-> items]

\* !x for an optional string: undefined, null and '' are falsy
Truthy(v) == v.kind = "str" /\ v.s # << >>

-----------------------------------------------------------------------------
(* String operations *)

StartsWith(s, p) == Len(p) <= Len(s) /\ SubSeq(s, 1, Len(p)) = p

EndsWith(s, p) == Len(p) <= Len(s) /\ SubSeq(s, Len(s) - Len(p) + 1, Len(s)) = p

\* s.slice(n)
Slice(s, n) == SubSeq(s, n + 1, Len(s))

\* s.includes(p)
Includes(s, p) == \E i \in 1..(Len(s) - Len(p) + 1) : SubSeq(s, i, i + Len(p) - 1) = p

\* s.indexOf(p), 1-based, 0 when absent
IndexOf(s, p) ==
    IF Includes(s, p)
    THEN CHOOSE i \in 1..(Len(s) - Len(p) + 1) :
            /\ SubSeq(s, i, i + Len(p) - 1) = p
            /\ \A j \in 1..(i - 1) : SubSeq(s, j, j + Len(p) - 1) # p
    ELSE 0

\* s.replace(p, '') with a string pattern: the first occurrence only
ReplaceFirst(s, p, v) ==
    LET i == IndexOf(s, p)
    IN  IF i = 0 THEN s
        ELSE SubSeq(s, 1, i - 1) \o v \o SubSeq(s, i + Len(p), Len(s))

\* the grave accent U+0060 and the apostrophe U+0027 as characters of a
\* string; the grave accent is written by its code point
GRAVE == "U+0060"
APOSTROPHE == "'"

\* GetSubstitution for a pattern without capture groups: in the replacement
\* text $$ stands for $, $& for the matched text, $ followed by a grave
\* accent for the text before the match and $ followed by an apostrophe for
\* the text after it; any other $ is kept as it is
RECURSIVE GetSubstitution(_, _, _, _)
GetSubstitution(v, matched, before, after) ==
    IF v = << >> THEN << >>
    ELSE IF v[1] = "$" /\ Len(v) >= 2 /\ v[2] \in { "$", "&", GRAVE, APOSTROPHE }
    THEN (CASE v[2] = "$" -> << "$" >>
            [] v[2] = "&" -> matched
            [] v[2] = GRAVE -> before
            [] v[2] = APOSTROPHE -> after)
         \o GetSubstitution(SubSeq(v, 3, Len(v)), matched, before, after)
    ELSE << v[1] >> \o GetSubstitution(Tail(v), matched, before, after)

\* the text of s from position i on after the replacement of every match:
\* the text up to the next match is kept, the match is replaced and the
\* search goes on behind it
RECURSIVE ReplaceAllFrom(_, _, _, _)
ReplaceAllFrom(s, i, p, v) ==
    LET hits == { j \in i..(Len(s) - Len(p) + 1) :
                    s[j] = p[1] /\ SubSeq(s, j, j + Len(p) - 1) = p }
    IN  IF hits = { } THEN SubSeq(s, i, Len(s))
        ELSE LET j == CHOOSE h \in hits : \A g \in hits : h <= g
             IN  SubSeq(s, i, j - 1)
                 \o GetSubstitution(v, p, SubSeq(s, 1, j - 1), SubSeq(s, j + Len(p), Len(s)))
                 \o ReplaceAllFrom(s, j + Len(p), p, v)

\* s.replace(new RegExp(p, 'g'), v) for a literal, non-empty pattern:
\* every non-overlapping occurrence, left to right, the inserted text is
\* not rescanned
ReplaceAll(s, p, v) == ReplaceAllFrom(s, 1, p, v)

\* s.split(sep) for a non-empty separator
RECURSIVE Split(_, _)
Split(s, sep) ==
    LET i == IndexOf(s, sep)
    IN  IF i = 0 THEN << s >>
        ELSE << SubSeq(s, 1, i - 1) >> \o Split(SubSeq(s, i + Len(sep), Len(s)), sep)

\* the characters \s and trim() take for white space: space, tab, line
\* feed, carriage return, form feed, vertical tab (U+000B, written as the
\* character itself) and, written by their code points, the no-break space,
\* the byte order mark, the space separators and the two Unicode line
\* terminators
Whitespace ==
    { " ", "\t", "\n", "\r", "\f", "",
      "U+00A0", "U+FEFF", "U+1680", "U+2000", "U+2001", "U+2002", "U+2003",
      "U+2004", "U+2005", "U+2006", "U+2007", "U+2008", "U+2009", "U+200A",
      "U+2028", "U+2029", "U+202F", "U+205F", "U+3000" }

\* the characters the . of a regular expression does not match
LineTerminators == { "\n", "\r", "U+2028", "U+2029" }

RECURSIVE TrimStart(_)
TrimStart(s) == IF s # << >> /\ s[1] \in Whitespace THEN TrimStart(Tail(s)) ELSE s

RECURSIVE TrimEnd(_)
TrimEnd(s) ==
    IF s # << >> /\ s[Len(s)] \in Whitespace THEN TrimEnd(SubSeq(s, 1, Len(s) - 1)) ELSE s

\* s.trim()
Trim(s) == TrimEnd(TrimStart(s))

\* \w of a regular expression
WordChars ==
    { "a", "b", "c", "d", "e", "f", "g", "h", "i", "j", "k", "l", "m", "n",
      "o", "p", "q", "r", "s", "t", "u", "v", "w", "x", "y", "z",
      "A", "B", "C", "D", "E", "F", "G", "H", "I", "J", "K", "L", "M", "N",
      "O", "P", "Q", "R", "S", "T", "U", "V", "W", "X", "Y", "Z",
      "0", "1", "2", "3", "4", "5", "6", "7", "8", "9", "_" }

\* [x] \o ... over a sequence of sequences
RECURSIVE Flatten(_)
Flatten(ss) == IF ss = << >> THEN << >> ELSE Head(ss) \o Flatten(Tail(ss))

\* the elements of a sequence
Range(s) == { s[i] : i \in DOMAIN s }

-----------------------------------------------------------------------------
(* String literals of the source *)

LATEST == << "l", "a", "t", "e", "s", "t" >>
REFS_HEADS == << "r", "e", "f", "s", "/", "h", "e", "a", "d", "s", "/" >>
REFS_TAGS == << "r", "e", "f", "s", "/", "t", "a", "g", "s", "/" >>
K_TAG == << "t", "a", "g" >>
K_BRANCH == << "b", "r", "a", "n", "c", "h" >>
K_SHA == << "s", "h", "a" >>
K_TIMESTAMP == << "t", "i", "m", "e", "s", "t", "a", "m", "p" >>

\* `{${key}}`
Placeholder(key) == << "{" >> \o key \o << "}" >>

\* ['{tag}']
DefaultTagTemplates == << Placeholder(K_TAG) >>

\* ['{branch}-{timestamp}-{sha}', 'latest']
DefaultBranchTemplates ==
    << Placeholder(K_BRANCH) \o << "-" >> \o Placeholder(K_TIMESTAMP) \o << "-" >>
         \o Placeholder(K_SHA),
       LATEST >>

\* the built-in ProjectConfig of loadProjectConfig
DefaultProjectConfig ==
    [ imageTagsOnTagPushed |-> List(DefaultTagTemplates),
      imageTagsOnBranchPushed |-> List(DefaultBranchTemplates),
      watchFiles |-> List(<< >>) ]

\* availableVariables of generateBuildArgs
AvailableVariables == << K_TAG, K_BRANCH, K_SHA, K_TIMESTAMP >>

\* sha.substring(0, 7)
ShortShaLen == 7

\* lines.slice(0, 10)
ScanLines == 10

-----------------------------------------------------------------------------
(* parseGitRef *)

\* parseGitRef removing every occurrence of the prefix (replaceAll)
parseGitRef_RemovesEveryPrefix(ref) ==
    IF StartsWith(ref, REFS_HEADS)
    THEN [ ok |-> TRUE, branch |-> Str(ReplaceAll(ref, REFS_HEADS, << >>)), tag |-> Null ]
    ELSE IF StartsWith(ref, REFS_TAGS)
    THEN [ ok |-> TRUE, branch |-> Null, tag |-> Str(ReplaceAll(ref, REFS_TAGS, << >>)) ]
    ELSE [ ok |-> FALSE, err |-> [ kind |-> "ref", cite |-> ref ] ]

parseGitRef(ref) ==
    IF StartsWith(ref, REFS_HEADS)
    THEN [ ok |-> TRUE, branch |-> Str(ReplaceFirst(ref, REFS_HEADS, << >>)), tag |-> Null ]
    ELSE IF StartsWith(ref, REFS_TAGS)
    THEN [ ok |-> TRUE, branch |-> Null, tag |-> Str(ReplaceFirst(ref, REFS_TAGS, << >>)) ]
    ELSE [ ok |-> FALSE, err |-> [ kind |-> "ref", cite |-> ref ] ]

-----------------------------------------------------------------------------
(* matchesPattern, isBuildRequired *)

GLOB_STAR == << "*" >>
GLOB_STAR_DOT == << "*", "." >>
GLOB_RECURSIVE == << "*", "*", "/", "*" >>
GLOB_DIR == << "*", "*", "/" >>
GLOB_DOUBLE == << "*", "*" >>
GLOB_SINGLE == << "/", "*" >>

\* the *.extension branch without the root-level condition
matchesPattern_Extension_AnyDepth(filename, pattern) ==
    LET extension == Slice(pattern, 2)
    IN  EndsWith(filename, << "." >> \o extension)

\* the *.extension branch
matchesPattern_Extension(filename, pattern) ==
    LET extension == Slice(pattern, 2)
    IN  EndsWith(filename, << "." >> \o extension) /\ ~Includes(filename, << "/" >>)

\* the **/* branch
matchesPattern_Recursive(filename, pattern) ==
    LET parts == Split(pattern, GLOB_DIR)
        prefix == parts[1]
        suffix == parts[2]
    IN  IF ~StartsWith(filename, prefix) THEN FALSE
        ELSE IF suffix = GLOB_STAR THEN TRUE
        ELSE IF StartsWith(suffix, GLOB_STAR_DOT)
        THEN EndsWith(filename, << "." >> \o Slice(suffix, 2))
        ELSE EndsWith(filename, suffix)

\* the /* branch
matchesPattern_Directory(filename, pattern) ==
    LET prefix == Split(pattern, GLOB_SINGLE)[1] \o << "/" >>
        suffix == Split(pattern, GLOB_SINGLE)[2]
        afterPrefix == Slice(filename, Len(prefix))
    IN  /\ StartsWith(filename, prefix)
        /\ ~Includes(afterPrefix, << "/" >>)
        /\ (suffix = GLOB_STAR \/ EndsWith(afterPrefix, suffix))

matchesPattern(filename, pattern) ==
    IF pattern = filename THEN TRUE
    ELSE IF pattern = GLOB_STAR THEN TRUE
    ELSE IF StartsWith(pattern, GLOB_STAR_DOT)
    THEN matchesPattern_Extension(filename, pattern)
    ELSE IF Includes(pattern, GLOB_RECURSIVE)
    THEN matchesPattern_Recursive(filename, pattern)
    ELSE IF Includes(pattern, GLOB_SINGLE) /\ ~Includes(pattern, GLOB_DOUBLE)
    THEN matchesPattern_Directory(filename, pattern)
    ELSE filename = pattern

\* Array.prototype.some
isBuildRequired_AnyMatch(watchFiles, changed) ==
    \E i \in DOMAIN changed : \E j \in DOMAIN watchFiles :
        matchesPattern(changed[i], watchFiles[j])

\* isBuildRequired without the empty-list shortcut
isBuildRequired_EmptyNeverBuilds(watchFiles, changed) ==
    isBuildRequired_AnyMatch(watchFiles, changed)

isBuildRequired(watchFiles, changed) ==
    IF Len(watchFiles) = 0 THEN TRUE
    ELSE isBuildRequired_AnyMatch(watchFiles, changed)

-----------------------------------------------------------------------------
(* validateTemplateVariables, generateTags, createTemplateVariables *)

\* length of the run of \w characters of s starting at position i
RECURSIVE WordRun(_, _)
WordRun(s, i) ==
    IF i <= Len(s) /\ s[i] \in WordChars THEN 1 + WordRun(s, i + 1) ELSE 0

\* the names captured by /\{(\w+)\}/g over s, scanning from position i
RECURSIVE TemplateTokens(_, _)
TemplateTokens(s, i) ==
    IF i > Len(s) THEN << >>
    ELSE IF s[i] = "{"
    THEN LET n == WordRun(s, i + 1)
         IN  IF n >= 1 /\ i + n + 1 <= Len(s) /\ s[i + n + 1] = "}"
             THEN << SubSeq(s, i + 1, i + n) >> \o TemplateTokens(s, i + n + 2)
             ELSE TemplateTokens(s, i + 1)
    ELSE TemplateTokens(s, i + 1)

\* missingVariables collected without the check for a name already listed
RECURSIVE CollectMissing_Repeats(_, _, _)
CollectMissing_Repeats(names, available, missing) ==
    IF names = << >> THEN missing
    ELSE LET variableName == Head(names)
         IN  CollectMissing_Repeats(Tail(names), available,
                 IF variableName \notin Range(available)
                 THEN Append(missing, variableName)
                 ELSE missing)

\* missingVariables after the names of `names` were visited in order
RECURSIVE CollectMissing(_, _, _)
CollectMissing(names, available, missing) ==
    IF names = << >> THEN missing
    ELSE LET variableName == Head(names)
         IN  CollectMissing(Tail(names), available,
                 IF variableName \notin Range(available) /\ variableName \notin Range(missing)
                 THEN Append(missing, variableName)
                 ELSE missing)

validateTemplateVariables(templates, available) ==
    LET names == Flatten([ t \in DOMAIN templates |-> TemplateTokens(templates[t], 1) ])
        missingVariables == CollectMissing(names, available, << >>)
    IN  IF Len(missingVariables) > 0
        THEN [ ok |-> FALSE, err |-> [ kind |-> "template", cite |-> missingVariables ] ]
        ELSE [ ok |-> TRUE ]

\* the loop over Object.entries(variables) for one template
RECURSIVE RenderTemplate(_, _)
RenderTemplate(template, entries) ==
    IF entries = << >> THEN template
    ELSE RenderTemplate(
            ReplaceAll(template, Placeholder(Head(entries).key), Head(entries).value),
            Tail(entries))

generateTags(templates, variables) ==
    [ t \in DOMAIN templates |-> RenderTemplate(templates[t], variables) ]

\* `now` is format(toZonedTime(new Date(), timezone), 'yyyyMMddHHmm')
createTemplateVariables(branch, tag, tz, sha, now) ==
    << [ key |-> K_SHA, value |-> SubSeq(sha, 1, IF Len(sha) < ShortShaLen THEN Len(sha) ELSE ShortShaLen) ] >>
    \o (IF Truthy(branch) THEN << [ key |-> K_BRANCH, value |-> branch.s ] >> ELSE << >>)
    \o (IF Truthy(tag) THEN << [ key |-> K_TAG, value |-> tag.s ] >> ELSE << >>)
    \o (IF tz # << >> THEN << [ key |-> K_TIMESTAMP, value |-> now ] >> ELSE << >>)

-----------------------------------------------------------------------------
(* resolveConfig, extractDockerfileConfig *)

resolveConfig(dockerfileValue, projectValue) ==
    IF dockerfileValue.kind # "undefined" THEN dockerfileValue ELSE projectValue

EmptyDockerfileConfig ==
    [ imageName |-> Undefined,
      imageTagsOnTagPushed |-> Undefined,
      imageTagsOnBranchPushed |-> Undefined,
      watchFiles |-> Undefined ]

(* A line of a Dockerfile, as content.split('\n') gives it, is one of
     [key |-> "image", rest |-> s]     "# image:" or "# Image:" followed by
                                       the text s
     [key |-> k, rest |-> s, json |-> j, ...]
                                       "# k:" followed by the text s, k one
                                       of imageTagsOnTagPushed,
                                       imageTagsOnBranchPushed, watchFiles;
                                       j says what the trimmed s is: "null"
                                       (the text null), "invalid"
                                       (JSON.parse throws), "array" (with
                                       items), "scalar" (any other JSON)
     [key |-> "other"]                 any other line                        *)
TagDirectiveKeys == { "imageTagsOnTagPushed", "imageTagsOnBranchPushed" }

\* \s*(.+)$ matches the text after the colon: white space, then at least
\* one character up to the end of the line, none of them a line terminator
ValueMatches(rest) ==
    \E k \in 0..(Len(rest) - 1) :
        /\ \A j \in 1..k : rest[j] \in Whitespace
        /\ \A j \in (k + 1)..Len(rest) : rest[j] \notin LineTerminators

\* line.match(...) of the pattern for the line's key
Matches(line) ==
    /\ line.key \in { "image", "watchFiles" } \cup TagDirectiveKeys
    /\ ValueMatches(line.rest)

\* the body of the for loop for one line: the config after it, or the throw
extractDockerfileConfig_Line(result, line, path) ==
    IF ~Matches(line) THEN [ ok |-> TRUE, config |-> result ]
    ELSE IF line.key = "image"
    THEN [ ok |-> TRUE, config |-> [ result EXCEPT !.imageName = Str(Trim(line.rest)) ] ]
    ELSE IF line.key \in TagDirectiveKeys
    THEN IF line.json = "null"
         THEN [ ok |-> TRUE, config |-> [ result EXCEPT ![line.key] = Null ] ]
         ELSE IF line.json = "invalid"
         THEN [ ok |-> FALSE,
                err |-> [ kind |-> "directive", cite |-> path, what |-> "Invalid JSON syntax" ] ]
         ELSE IF line.json # "array"
         THEN [ ok |-> FALSE,
                err |-> [ kind |-> "directive", cite |-> path, what |-> "must be an array" ] ]
         ELSE [ ok |-> TRUE, config |-> [ result EXCEPT ![line.key] = List(line.items) ] ]
    ELSE IF line.key = "watchFiles"
    THEN IF line.json = "invalid"
         THEN [ ok |-> FALSE,
                err |-> [ kind |-> "directive", cite |-> path, what |-> "Invalid JSON syntax" ] ]
         ELSE IF line.json # "array"
         THEN [ ok |-> FALSE,
                err |-> [ kind |-> "directive", cite |-> path, what |-> "must be an array" ] ]
         ELSE [ ok |-> TRUE, config |-> [ result EXCEPT !.watchFiles = List(line.items) ] ]
    ELSE [ ok |-> TRUE, config |-> result ]

RECURSIVE extractDockerfileConfig_Loop(_, _, _)
extractDockerfileConfig_Loop(result, lines, path) ==
    IF lines = << >> THEN [ ok |-> TRUE, config |-> result ]
    ELSE LET r == extractDockerfileConfig_Line(result, Head(lines), path)
         IN  IF r.ok THEN extractDockerfileConfig_Loop(r.config, Tail(lines), path) ELSE r

extractDockerfileConfig(file) ==
    extractDockerfileConfig_Loop(
        EmptyDockerfileConfig,
        SubSeq(file.lines, 1, IF Len(file.lines) < ScanLines THEN Len(file.lines) ELSE ScanLines),
        file.path)

-----------------------------------------------------------------------------
(* checkImageTagExists, ensureUniqueTag *)

(* The registry's answer to GET /user/packages/container/{package}/versions:
     [status |-> "ok", versions |-> <<tags of version 1, ...>>]
     [status |-> "notfound"]   the request is rejected with 404
     [status |-> "failure"]    the request is rejected with any other error  *)

\* imageName.includes('/') ? imageName.split('/').pop() : imageName
PackageName(imageName) ==
    IF Includes(imageName, << "/" >>)
    THEN LET parts == Split(imageName, << "/" >>) IN parts[Len(parts)]
    ELSE imageName

\* checkImageTagExists looking at response.data[0] only
checkImageTagExists_FirstVersionOnly(response, imageName, tag) ==
    IF response.status # "ok"
    THEN [ ok |-> FALSE, err |-> [ kind |-> "registry", cite |-> response.status ] ]
    ELSE [ ok |-> TRUE,
           val |-> response.versions # << >> /\ tag \in Range(response.versions[1]) ]

\* checkImageTagExists with a catch that answers false for every rejection
checkImageTagExists_Swallows(response, imageName, tag) ==
    IF response.status # "ok"
    THEN [ ok |-> TRUE, val |-> FALSE ]
    ELSE [ ok |-> TRUE,
           val |-> \E v \in DOMAIN response.versions : tag \in Range(response.versions[v]) ]

checkImageTagExists(response, imageName, tag) ==
    IF response.status # "ok"
    THEN [ ok |-> FALSE, err |-> [ kind |-> "registry", cite |-> response.status ] ]
    ELSE [ ok |-> TRUE,
           val |-> \E v \in DOMAIN response.versions : tag \in Range(response.versions[v]) ]

\* the loop of ensureUniqueTag without the `continue` for 'latest'
RECURSIVE ensureUniqueTag_Loop_ChecksLatest(_, _, _, _, _)
ensureUniqueTag_Loop_ChecksLatest(finalTags, i, responses, imageName, seen) ==
    IF i > Len(finalTags) THEN [ ok |-> TRUE, lookups |-> seen ]
    ELSE LET made == Append(seen, [ image |-> imageName,
                                    package |-> PackageName(imageName),
                                    tag |-> finalTags[i] ])
         IN  IF Len(made) > Len(responses)
             THEN [ pending |-> TRUE, lookups |-> made ]
             ELSE LET exists == checkImageTagExists(responses[Len(made)], imageName,
                                                    finalTags[i])
                  IN  IF ~exists.ok
                      THEN [ ok |-> FALSE, err |-> exists.err, lookups |-> made ]
                      ELSE IF exists.val
                      THEN [ ok |-> FALSE,
                             err |-> [ kind |-> "collision",
                                       cite |-> [ image |-> imageName,
                                                  tag |-> finalTags[i] ] ],
                             lookups |-> made ]
                      ELSE ensureUniqueTag_Loop_ChecksLatest(finalTags, i + 1, responses,
                                                             imageName, made)

\* the for loop of ensureUniqueTag over finalTags from position i on;
\* `seen` are the requests made so far, and the registry answers the k-th
\* request of the call with responses[k]; while the answer to a request it
\* made has not arrived the call is pending at its await
RECURSIVE ensureUniqueTag_Loop(_, _, _, _, _)
ensureUniqueTag_Loop(finalTags, i, responses, imageName, seen) ==
    IF i > Len(finalTags) THEN [ ok |-> TRUE, lookups |-> seen ]
    ELSE IF finalTags[i] = LATEST
    THEN ensureUniqueTag_Loop(finalTags, i + 1, responses, imageName, seen)
    ELSE LET made == Append(seen, [ image |-> imageName,
                                    package |-> PackageName(imageName),
                                    tag |-> finalTags[i] ])
         IN  IF Len(made) > Len(responses)
             THEN [ pending |-> TRUE, lookups |-> made ]
             ELSE LET exists == checkImageTagExists(responses[Len(made)], imageName,
                                                    finalTags[i])
                  IN  IF ~exists.ok
                      THEN [ ok |-> FALSE, err |-> exists.err, lookups |-> made ]
                      ELSE IF exists.val
                      THEN [ ok |-> FALSE,
                             err |-> [ kind |-> "collision",
                                       cite |-> [ image |-> imageName,
                                                  tag |-> finalTags[i] ] ],
                             lookups |-> made ]
                      ELSE ensureUniqueTag_Loop(finalTags, i + 1, responses, imageName,
                                                made)

ensureUniqueTag(tags, variables, responses, imageName) ==
    ensureUniqueTag_Loop(generateTags(tags, variables), 1, responses, imageName, << >>)

-----------------------------------------------------------------------------
(* loadProjectConfig, findDockerfiles *)

(* smart-docker-build.yml on disk is one of
     [exists |-> FALSE]
     [exists |-> TRUE, valid |-> FALSE]              yaml.load or the schema throws
     [exists |-> TRUE, valid |-> TRUE, raw |-> r]    r holds the three keys,
                                                      Undefined for a key left out *)
\* .optional().default(d)
SchemaDefault(v, d) == IF v.kind = "undefined" THEN d ELSE v

loadProjectConfig(file) ==
    IF file.exists
    THEN IF file.valid
         THEN [ ok |-> TRUE,
                config |->
                  [ imageTagsOnTagPushed |->
                        SchemaDefault(file.raw.imageTagsOnTagPushed, List(DefaultTagTemplates)),
                    imageTagsOnBranchPushed |->
                        SchemaDefault(file.raw.imageTagsOnBranchPushed, List(DefaultBranchTemplates)),
                    watchFiles |-> SchemaDefault(file.raw.watchFiles, List(<< >>)) ] ]
         ELSE [ ok |-> FALSE, err |-> [ kind |-> "config", cite |-> "smart-docker-build.yml" ] ]
    ELSE [ ok |-> TRUE, config |-> DefaultProjectConfig ]

(* The working tree as findDockerfiles walks it.  A directory is
     [kind |-> "dir", name |-> s, readable |-> b, entries |-> <<entry, ...>>]
   with its entries in the order readdirSync lists them, readable FALSE
   when readdirSync throws on it; a file is
     [kind |-> "file", name |-> s, lines |-> <<line, ...>>].
   Paths are kept relative to the working directory.                       *)
DOCKERFILE == << "D", "o", "c", "k", "e", "r", "f", "i", "l", "e" >>
DOCKERFILE_DOT == DOCKERFILE \o << "." >>

\* ['node_modules', '.git', '.github', 'dist', 'build']
SkippedDirectories ==
    { << "n", "o", "d", "e", "_", "m", "o", "d", "u", "l", "e", "s" >>,
      << ".", "g", "i", "t" >>,
      << ".", "g", "i", "t", "h", "u", "b" >>,
      << "d", "i", "s", "t" >>,
      << "b", "u", "i", "l", "d" >> }

\* searchDir(dir), and its for loop over the entries from position i on with
\* the Dockerfiles pushed so far; prefix is the path of dir followed by '/'
RECURSIVE searchDir(_, _)
RECURSIVE searchDir_Entries(_, _, _, _)
searchDir(dir, prefix) ==
    IF ~dir.readable
    THEN [ ok |-> FALSE, err |-> [ kind |-> "readdir", cite |-> prefix ] ]
    ELSE searchDir_Entries(dir.entries, 1, prefix, << >>)

searchDir_Entries(entries, i, prefix, found) ==
    IF i > Len(entries) THEN [ ok |-> TRUE, files |-> found ]
    ELSE LET entry == entries[i]
         IN  IF entry.kind = "dir"
             THEN IF entry.name \in SkippedDirectories
                  THEN searchDir_Entries(entries, i + 1, prefix, found)
                  ELSE LET below == searchDir(entry, prefix \o entry.name \o << "/" >>)
                       IN  IF ~below.ok THEN below
                           ELSE searchDir_Entries(entries, i + 1, prefix, found \o below.files)
             ELSE IF entry.name = DOCKERFILE \/ StartsWith(entry.name, DOCKERFILE_DOT)
             THEN searchDir_Entries(entries, i + 1, prefix,
                      Append(found, [ path |-> prefix \o entry.name, lines |-> entry.lines ]))
             ELSE searchDir_Entries(entries, i + 1, prefix, found)

findDockerfiles(tree) == searchDir(tree, << >>)

-----------------------------------------------------------------------------
(* generateBuildArgs: the ImageBuildSpec list *)

ImageBuildSpecOf(file, name, dockerfileConfig, project) ==
    [ dockerfilePath |-> file.path,
      imageName |-> name,
      imageTagsOnTagPushed |->
          resolveConfig(dockerfileConfig.imageTagsOnTagPushed, project.imageTagsOnTagPushed),
      imageTagsOnBranchPushed |->
          resolveConfig(dockerfileConfig.imageTagsOnBranchPushed, project.imageTagsOnBranchPushed),
      watchFiles |-> resolveConfig(dockerfileConfig.watchFiles, project.watchFiles) ]

\* dockerfileConfig.imageName || repository.name
SingleImageName(dockerfileConfig, repositoryName) ==
    IF Truthy(dockerfileConfig.imageName) THEN dockerfileConfig.imageName.s ELSE repositoryName

\* the for loop of the multiple-Dockerfile branch, from file i on
RECURSIVE MultipleImageSpecs(_, _, _, _)
MultipleImageSpecs(files, i, project, specs) ==
    IF i > Len(files) THEN [ ok |-> TRUE, specs |-> specs ]
    ELSE LET extracted == extractDockerfileConfig(files[i])
         IN  IF ~extracted.ok THEN extracted
             ELSE IF ~Truthy(extracted.config.imageName)
             THEN [ ok |-> FALSE, err |-> [ kind |-> "naming", cite |-> files[i].path ] ]
             ELSE MultipleImageSpecs(files, i + 1, project,
                      Append(specs, ImageBuildSpecOf(files[i], extracted.config.imageName.s,
                                                     extracted.config, project)))

BuildImageSpecs(files, repositoryName, project) ==
    IF Len(files) = 1
    THEN LET extracted == extractDockerfileConfig(files[1])
         IN  IF ~extracted.ok THEN extracted
             ELSE [ ok |-> TRUE,
                    specs |-> << ImageBuildSpecOf(files[1],
                                     SingleImageName(extracted.config, repositoryName),
                                     extracted.config, project) >> ]
    ELSE MultipleImageSpecs(files, 1, project, << >>)

\* the empty-discovery check left out
NoDockerfiles_Never(files) == FALSE

\* dockerfiles.length === 0
NoDockerfiles(files) == Len(files) = 0

\* the entries of one image pushed last tag first
Instructions_LastFirst(spec, tags) ==
    [ t \in DOMAIN tags |->
        [ dockerfilePath |-> spec.dockerfilePath,
          imageName |-> spec.imageName,
          imageTag |-> tags[Len(tags) + 1 - t] ] ]

\* the ActionResult entries pushed for one image
Instructions(spec, tags) ==
    [ t \in DOMAIN tags |->
        [ dockerfilePath |-> spec.dockerfilePath,
          imageName |-> spec.imageName,
          imageTag |-> tags[t] ] ]

-----------------------------------------------------------------------------
(* Inputs of a run *)

\* how many Dockerfiles a working tree holds at most
MaxDockerfiles == 2

NoError == [ kind |-> "none" ]

TOKEN_OK == << "t", "o", "k" >>
Tokens == { << >>, << " " >>, TOKEN_OK }

TZ_UTC == << "U", "T", "C" >>
Timezones == { << >>, TZ_UTC }

\* format(toZonedTime(new Date(), timezone), 'yyyyMMddHHmm') at the time of the run
NOW == << "2", "0", "2", "6", "0", "1", "0", "1", "1", "2", "0", "0" >>
LATER == << "2", "0", "2", "6", "0", "1", "0", "1", "1", "2", "0", "1" >>

\* what the clock may read when createTemplateVariables asks it
Clocks == { NOW, LATER }

\* registry, registry_username and registry_token as main reads them
RegistryInputs ==
    { [ registry |-> "", username |-> FALSE, token |-> FALSE ],
      [ registry |-> "dockerhub", username |-> TRUE, token |-> TRUE ],
      [ registry |-> "dockerhub", username |-> TRUE, token |-> FALSE ] }

REPO_NAME == << "r", "e", "p", "o" >>
Repository == [ kind |-> "repo", name |-> REPO_NAME, owner |-> << "o", "c", "t", "o" >> ]
SHA_BEFORE == << "0", "1", "2", "3", "4", "5", "6", "7", "8", "9" >>
SHA_AFTER == << "a", "b", "c", "d", "e", "f", "1", "2", "3", "4", "5", "6", "7" >>
BRANCH_MAIN == << "m", "a", "i", "n" >>
TAG_V1 == << "v", "1" >>
REF_BRANCH == REFS_HEADS \o BRANCH_MAIN
REF_TAG == REFS_TAGS \o TAG_V1
REF_PULL == << "r", "e", "f", "s", "/", "p", "u", "l", "l", "/", "1", "/", "m", "e", "r", "g", "e" >>

Payloads ==
    [ repository : { Undefined, Repository },
      before : { Undefined, Str(SHA_BEFORE) },
      after : { Undefined, Str(SHA_AFTER) },
      ref : { Undefined, Str(REF_BRANCH), Str(REF_TAG), Str(REF_PULL) } ]

T_DEV == << "d", "e", "v" >>
T_BRANCH_SHA == Placeholder(K_BRANCH) \o << "-" >> \o Placeholder(K_SHA)
T_VERSION == Placeholder(<< "v", "e", "r", "s", "i", "o", "n" >>)
W_SRC == << "s", "r", "c", "/", "*", "*", "/", "*" >>
F_DOCKERFILE == << "D", "o", "c", "k", "e", "r", "f", "i", "l", "e" >>
F_SRC == << "s", "r", "c", "/", "a", ".", "j", "s" >>

ConfigFiles ==
    { [ exists |-> FALSE ],
      [ exists |-> TRUE, valid |-> FALSE ],
      [ exists |-> TRUE, valid |-> TRUE,
        raw |-> [ imageTagsOnTagPushed |-> Null,
                  imageTagsOnBranchPushed |-> List(<< T_BRANCH_SHA >>),
                  watchFiles |-> List(<< W_SRC >>) ] ],
      [ exists |-> TRUE, valid |-> TRUE,
        raw |-> [ imageTagsOnTagPushed |-> Undefined,
                  imageTagsOnBranchPushed |-> Null,
                  watchFiles |-> Undefined ] ],
      [ exists |-> TRUE, valid |-> TRUE,
        raw |-> [ imageTagsOnTagPushed |-> List(<< T_VERSION >>),
                  imageTagsOnBranchPushed |-> Undefined,
                  watchFiles |-> Undefined ] ] }

\* what octokit.repos.compareCommits answers: data.files, or a rejection
CompareResponses ==
    { [ ok |-> FALSE ],
      [ ok |-> TRUE, files |-> Undefined ],
      [ ok |-> TRUE, files |-> List(<< F_DOCKERFILE >>) ],
      [ ok |-> TRUE, files |-> List(<< F_DOCKERFILE, F_SRC >>) ] }

\* Dockerfile lines
ImageLine(name) == [ key |-> "image", rest |-> << " " >> \o name ]
NullLine(k) == [ key |-> k, rest |-> << " ", "n", "u", "l", "l" >>, json |-> "null" ]
\* the items of a JSON array of strings that need no escape, as text
RECURSIVE Stringify(_)
Stringify(items) ==
    IF items = << >> THEN << >>
    ELSE << "\"" >> \o Head(items) \o << "\"" >>
         \o (IF Tail(items) = << >> THEN << >> ELSE << ",", " " >>)
         \o Stringify(Tail(items))
ArrayLine(k, items) ==
    [ key |-> k, rest |-> << " ", "[" >> \o Stringify(items) \o << "]" >>,
      json |-> "array", items |-> items ]
\* a bare word where JSON is expected
InvalidLine(k) ==
    [ key |-> k, rest |-> << " ", "p", "r", "o", "d", "u", "c", "t", "i", "o", "n" >>,
      json |-> "invalid" ]
\* the same line with one more character at its end
Ended(line, ch) ==
    IF line.key = "other" THEN line ELSE [ line EXCEPT !.rest = @ \o << ch >> ]
\* the same line in a file with CRLF line ends
CrLf(line) == Ended(line, "\r")
FromLine == [ key |-> "other" ]

DockerfileContents ==
    { << FromLine >>,
      << ImageLine(<< "a", "p", "p" >>), FromLine >>,
      << ImageLine(<< "d", "e", "v", "-", "t", "o", "o", "l", "s" >>),
         NullLine("imageTagsOnTagPushed"),
         ArrayLine("imageTagsOnBranchPushed", << T_DEV, Placeholder(K_SHA) >>),
         FromLine >>,
      << ImageLine(<< "w", "e", "b" >>), ArrayLine("watchFiles", << W_SRC >>), FromLine >>,
      << ImageLine(<< "o", "r", "g", "/", "a", "p", "i" >>),
         ArrayLine("imageTagsOnTagPushed", << Placeholder(K_TAG), LATEST >>),
         FromLine >>,
      << ImageLine(<< "a", "p", "i" >>), NullLine("imageTagsOnBranchPushed"), FromLine >>,
      << [ key |-> "image", rest |-> << " " >> ], FromLine >>,
      << ImageLine(<< "c", "l", "i" >>),
         ArrayLine("imageTagsOnBranchPushed", << T_VERSION >>),
         FromLine >>,
      << InvalidLine("watchFiles"), ImageLine(<< "b", "a", "d" >>), FromLine >>,
      << ImageLine(<< "j", "o", "b" >>), InvalidLine("imageTagsOnTagPushed"), FromLine >>,
      << ImageLine(<< "l", "a", "t", "e" >>) >> \o [ i \in 1..(ScanLines - 1) |-> FromLine ]
         \o << InvalidLine("imageTagsOnBranchPushed") >>,
      << CrLf(ImageLine(<< "w", "i", "n" >>)),
         CrLf(NullLine("imageTagsOnBranchPushed")),
         FromLine >>,
      << CrLf(ImageLine(<< "w", "i", "n" >>)),
         CrLf(InvalidLine("watchFiles")),
         FromLine >>,
      << ImageLine(<< "s", "e", "p" >>),
         Ended(NullLine("imageTagsOnBranchPushed"), "U+2029"),
         FromLine >> }

FurtherContents ==
    { << ImageLine(<< "a", "p", "p" >>), FromLine >>,
      << ImageLine(<< "j", "o", "b" >>), InvalidLine("imageTagsOnTagPushed"), FromLine >> }

\* a file entry and a directory entry of the working tree
File(name, lines) == [ kind |-> "file", name |-> name, lines |-> lines ]
Dir(name, readable, entries) ==
    [ kind |-> "dir", name |-> name, readable |-> readable, entries |-> entries ]

README == File(<< "R", "E", "A", "D", "M", "E", ".", "m", "d" >>, << >>)

\* where the Dockerfiles of a tree lie, in walk order
DockerfilePaths ==
    << F_DOCKERFILE, << "a", "p", "i", "/", "D", "o", "c", "k", "e", "r", "f", "i", "l", "e" >>, << "w", "e", "b", "/", "D", "o", "c", "k", "e", "r", "f", "i", "l", "e", ".", "d", "e", "v" >>, << "t", "o", "o", "l", "s", "/", "D", "o", "c", "k", "e", "r", "f", "i", "l", "e" >> >>

\* the entry of the root directory that holds the Dockerfile at `path`
EntryAt(path, lines) ==
    LET parts == Split(path, << "/" >>)
    IN  IF Len(parts) = 1 THEN File(parts[1], lines)
        ELSE Dir(parts[1], TRUE, << README, File(parts[2], lines) >>)

\* directories that hold no Dockerfile the walk may return: one the walk
\* skips by name, one that readdirSync cannot read
VendoredDir ==
    Dir(<< "n", "o", "d", "e", "_", "m", "o", "d", "u", "l", "e", "s" >>, TRUE,
        << File(DOCKERFILE, << FromLine >>) >>)
UnreadableDir == Dir(<< "p", "r", "i", "v", "a", "t", "e" >>, FALSE, << >>)

TreeExtras == { << >>, << VendoredDir >>, << UnreadableDir >> }

\* trees of up to MaxDockerfiles Dockerfiles: the first two hold any of the
\* contents above, the ones after them one of FurtherContents
Trees ==
    { Dir(<< >>, TRUE,
          [ i \in 1..n |-> EntryAt(DockerfilePaths[i], c[i]) ] \o << README >> \o extra) :
        n \in 0..MaxDockerfiles,
        c \in { f \in [ 1..MaxDockerfiles -> DockerfileContents ] :
                  \A i \in 3..MaxDockerfiles : f[i] \in FurtherContents },
        extra \in TreeExtras }

\* answers of the registry to a versions request
RegistryResponses ==
    { [ status |-> "notfound" ],
      [ status |-> "failure" ],
      [ status |-> "ok", versions |-> << >> ],
      [ status |-> "ok", versions |-> << << TAG_V1, LATEST >>, << T_DEV >> >> ] }

-----------------------------------------------------------------------------
(* The run: main (index.ts) calling generateBuildArgs (lib.ts) *)

NoCall == [ fn |-> "none" ]

NoOutputs == [ build_args |-> Undefined, has_builds |-> Undefined, failed |-> Undefined ]

Init ==
    /\ pc = "main"
    /\ token = << >>
    /\ timezone = << >>
    /\ payload = Undefined
    /\ projectConfig = Undefined
    /\ gitRef = Undefined
    /\ changedFiles = Undefined
    /\ dockerfiles = Undefined
    /\ imageBuildSpecs = Undefined
    /\ templateVariables = Undefined
    /\ idx = 0
    /\ registry = << >>
    /\ lookups = << >>
    /\ outputs = << >>
    /\ error = NoError
    /\ buildArgs = Undefined
    /\ actionOutputs = NoOutputs
    /\ diffFetches = 0
    /\ call = NoCall
    /\ ret = Undefined

\* Throw as it would be if generateBuildArgs caught the error and resolved
\* with the instructions collected so far
Throw_ResolvesPartial(e) ==
    /\ pc' = "returned"
    /\ error' = e
    /\ buildArgs' = List(outputs)

\* a throw inside main or generateBuildArgs: the promise is rejected with e
\* and control passes to the catch of the entrypoint
Throw(e) ==
    /\ pc' = "thrown"
    /\ error' = e
    /\ buildArgs' = buildArgs

\* main reads its inputs and validates the registry parameters
MainStart ==
    /\ pc = "main"
    /\ \E t \in Tokens, z \in Timezones, r \in RegistryInputs :
        /\ token' = t
        /\ timezone' = z
        /\ IF r.registry = "dockerhub" /\ (~r.username \/ ~r.token)
           THEN Throw([ kind |-> "input", cite |-> "registry" ])
           ELSE pc' = "token" /\ UNCHANGED << error, buildArgs >>
    /\ UNCHANGED << payload, projectConfig, gitRef, changedFiles, dockerfiles,
                    imageBuildSpecs, templateVariables, idx, registry, lookups,
                    outputs, actionOutputs, diffFetches, call, ret >>

\* the token check as !token alone
CheckToken_EmptyOnly ==
    /\ pc = "token"
    /\ IF token = << >>
       THEN Throw([ kind |-> "token", cite |-> token ])
       ELSE pc' = "config" /\ UNCHANGED << error, buildArgs >>
    /\ UNCHANGED << token, timezone, payload, projectConfig, gitRef, changedFiles,
                    dockerfiles, imageBuildSpecs, templateVariables, idx, registry,
                    lookups, outputs, actionOutputs, diffFetches, call, ret >>

\* !token || token.trim() === ''
CheckToken ==
    /\ pc = "token"
    /\ IF token = << >> \/ Trim(token) = << >>
       THEN Throw([ kind |-> "token", cite |-> token ])
       ELSE pc' = "config" /\ UNCHANGED << error, buildArgs >>
    /\ UNCHANGED << token, timezone, payload, projectConfig, gitRef, changedFiles,
                    dockerfiles, imageBuildSpecs, templateVariables, idx, registry,
                    lookups, outputs, actionOutputs, diffFetches, call, ret >>

LoadConfig ==
    /\ pc = "config"
    /\ \E file \in ConfigFiles :
        LET loaded == loadProjectConfig(file)
        IN  IF loaded.ok
            THEN /\ projectConfig' = loaded.config
                 /\ pc' = "validate"
                 /\ UNCHANGED << error, buildArgs >>
            ELSE /\ Throw(loaded.err)
                 /\ UNCHANGED projectConfig
    /\ UNCHANGED << token, timezone, payload, gitRef, changedFiles, dockerfiles,
                    imageBuildSpecs, templateVariables, idx, registry, lookups,
                    outputs, actionOutputs, diffFetches, call, ret >>

\* the two validateTemplateVariables calls on the project configuration
ValidateProjectTemplates(project) ==
    LET onTag == IF project.imageTagsOnTagPushed.kind # "null"
                 THEN validateTemplateVariables(project.imageTagsOnTagPushed.items,
                                                AvailableVariables)
                 ELSE [ ok |-> TRUE ]
    IN  IF ~onTag.ok THEN onTag
        ELSE IF project.imageTagsOnBranchPushed.kind # "null"
        THEN validateTemplateVariables(project.imageTagsOnBranchPushed.items,
                                       AvailableVariables)
        ELSE [ ok |-> TRUE ]

ValidateTemplates ==
    /\ pc = "validate"
    /\ LET checked == ValidateProjectTemplates(projectConfig)
       IN  IF checked.ok
           THEN pc' = "context" /\ UNCHANGED << error, buildArgs >>
           ELSE Throw(checked.err)
    /\ UNCHANGED << token, timezone, payload, projectConfig, gitRef, changedFiles,
                    dockerfiles, imageBuildSpecs, templateVariables, idx, registry,
                    lookups, outputs, actionOutputs, diffFetches, call, ret >>

\* !repository || !before || !after || !ref
MissingContext(p) ==
    \/ p.repository.kind = "undefined"
    \/ ~Truthy(p.before)
    \/ ~Truthy(p.after)
    \/ ~Truthy(p.ref)

CheckContext ==
    /\ pc = "context"
    /\ \E p \in Payloads :
        /\ payload' = p
        /\ IF MissingContext(p)
           THEN Throw([ kind |-> "context", cite |-> "repository, before, after, ref" ])
           ELSE pc' = "ref" /\ UNCHANGED << error, buildArgs >>
    /\ UNCHANGED << token, timezone, projectConfig, gitRef, changedFiles,
                    dockerfiles, imageBuildSpecs, templateVariables, idx, registry,
                    lookups, outputs, actionOutputs, diffFetches, call, ret >>

ParseRef ==
    /\ pc = "ref"
    /\ LET parsed == parseGitRef(payload.ref.s)
       IN  IF parsed.ok
           THEN /\ gitRef' = [ branch |-> parsed.branch, tag |-> parsed.tag ]
                /\ pc' = "diff"
                /\ UNCHANGED << error, buildArgs >>
           ELSE /\ Throw(parsed.err)
                /\ UNCHANGED gitRef
    /\ UNCHANGED << token, timezone, payload, projectConfig, changedFiles,
                    dockerfiles, imageBuildSpecs, templateVariables, idx, registry,
                    lookups, outputs, actionOutputs, diffFetches, call, ret >>

\* getRepositoryChanges(octokit, repository, before, after) is called: the
\* compareCommits request is made and main waits for its answer
FetchChanges ==
    /\ pc = "diff"
    /\ diffFetches' = diffFetches + 1
    /\ pc' = "compare"
    /\ UNCHANGED << token, timezone, payload, projectConfig, gitRef, changedFiles,
                    dockerfiles, imageBuildSpecs, templateVariables, idx, registry,
                    lookups, outputs, error, buildArgs, actionOutputs, call, ret >>

\* the answer arrives: const changedFiles = compare.data.files || [], or the
\* rejection of the request is thrown
CompareAnswers ==
    /\ pc = "compare"
    /\ \E compare \in CompareResponses :
        IF compare.ok
        THEN /\ changedFiles' = IF compare.files.kind = "undefined"
                                THEN List(<< >>) ELSE compare.files
             /\ pc' = "discover"
             /\ UNCHANGED << error, buildArgs >>
        ELSE /\ Throw([ kind |-> "compare", cite |-> "compareCommits" ])
             /\ UNCHANGED changedFiles
    /\ UNCHANGED << token, timezone, payload, projectConfig, gitRef, dockerfiles,
                    imageBuildSpecs, templateVariables, idx, registry, lookups,
                    outputs, actionOutputs, diffFetches, call, ret >>

Discover ==
    /\ pc = "discover"
    /\ \E tree \in Trees :
        LET found == findDockerfiles(tree)
        IN  IF ~found.ok
            THEN Throw(found.err) /\ UNCHANGED dockerfiles
            ELSE /\ dockerfiles' = List(found.files)
                 /\ IF NoDockerfiles(found.files)
                    THEN Throw([ kind |-> "nodockerfiles", cite |-> << >> ])
                    ELSE pc' = "specs" /\ UNCHANGED << error, buildArgs >>
    /\ UNCHANGED << token, timezone, payload, projectConfig, gitRef, changedFiles,
                    imageBuildSpecs, templateVariables, idx, registry, lookups,
                    outputs, actionOutputs, diffFetches, call, ret >>

BuildSpecs ==
    /\ pc = "specs"
    /\ LET built == BuildImageSpecs(dockerfiles.items, payload.repository.name, projectConfig)
       IN  IF built.ok
           THEN /\ imageBuildSpecs' = List(built.specs)
                /\ pc' = "vars"
                /\ UNCHANGED << error, buildArgs >>
           ELSE /\ Throw(built.err)
                /\ UNCHANGED imageBuildSpecs
    /\ UNCHANGED << token, timezone, payload, projectConfig, gitRef, changedFiles,
                    dockerfiles, templateVariables, idx, registry, lookups,
                    outputs, actionOutputs, diffFetches, call, ret >>

CreateVars ==
    /\ pc = "vars"
    /\ \E now \in Clocks :
          templateVariables' =
             List(createTemplateVariables(gitRef.branch, gitRef.tag, timezone,
                                          payload.after.s, now))
    /\ idx' = 1
    /\ pc' = "loop"
    /\ UNCHANGED << token, timezone, payload, projectConfig, gitRef, changedFiles,
                    dockerfiles, imageBuildSpecs, registry, lookups, outputs, error,
                    buildArgs, actionOutputs, diffFetches, call, ret >>

\* tag && spec.imageTagsOnTagPushed !== null
OnTagPush(ref, spec) == Truthy(ref.tag) /\ spec.imageTagsOnTagPushed.kind # "null"

\* branch && spec.imageTagsOnBranchPushed !== null
OnBranchPush(ref, spec) == Truthy(ref.branch) /\ spec.imageTagsOnBranchPushed.kind # "null"

\* the templates the loop body hands to ensureUniqueTag and generateTags for
\* spec, None when the body does neither
NoRequest == [ status |-> "none" ]

\* the watch gate applied to tag pushes as well
TemplatesToBuild_GatesTagPush(ref, spec, changed) ==
    IF OnTagPush(ref, spec)
    THEN IF isBuildRequired(spec.watchFiles.items, changed)
         THEN spec.imageTagsOnTagPushed
         ELSE Null
    ELSE IF OnBranchPush(ref, spec)
    THEN IF isBuildRequired(spec.watchFiles.items, changed)
         THEN spec.imageTagsOnBranchPushed
         ELSE Null
    ELSE Null

TemplatesToBuild(ref, spec, changed) ==
    IF OnTagPush(ref, spec) THEN spec.imageTagsOnTagPushed
    ELSE IF OnBranchPush(ref, spec)
    THEN IF isBuildRequired(spec.watchFiles.items, changed)
         THEN spec.imageTagsOnBranchPushed
         ELSE Null
    ELSE Null

\* the emission rendering with variables created anew, the clock read again
BuildImage_RereadsClock(spec, templates, responses) ==
    LET unique == ensureUniqueTag(templates, templateVariables.items, responses, spec.imageName)
    IN  /\ registry' = Append(SubSeq(registry, 1, idx - 1),
                              [ status |-> "asked", answers |-> responses ])
        /\ lookups' = Append(SubSeq(lookups, 1, idx - 1), unique.lookups)
        /\ IF "pending" \in DOMAIN unique
           THEN /\ pc' = "registry"
                /\ UNCHANGED << outputs, idx, error, buildArgs >>
           ELSE IF unique.ok
           THEN /\ \E now \in Clocks :
                      outputs' = outputs \o
                          Instructions(spec,
                              generateTags(templates,
                                  createTemplateVariables(gitRef.branch, gitRef.tag, timezone,
                                                          payload.after.s, now)))
                /\ idx' = idx + 1
                /\ pc' = "loop"
                /\ UNCHANGED << error, buildArgs >>
           ELSE /\ Throw(unique.err)
                /\ UNCHANGED << outputs, idx >>

\* what the run keeps of a uniqueness check: the answers received so far
Asked(responses) == [ status |-> "asked", answers |-> responses ]

\* the uniqueness check and the emission of one image, as far as the answers
\* received so far carry it: the call awaits the answer to its next request,
\* throws, or completes and the image's instructions are pushed
BuildImage(spec, templates, responses) ==
    LET unique == ensureUniqueTag(templates, templateVariables.items, responses, spec.imageName)
    IN  /\ registry' = Append(SubSeq(registry, 1, idx - 1), Asked(responses))
        /\ lookups' = Append(SubSeq(lookups, 1, idx - 1), unique.lookups)
        /\ IF "pending" \in DOMAIN unique
           THEN /\ pc' = "registry"
                /\ UNCHANGED << outputs, idx, error, buildArgs >>
           ELSE IF unique.ok
           THEN /\ outputs' = outputs \o
                        Instructions(spec, generateTags(templates, templateVariables.items))
                /\ idx' = idx + 1
                /\ pc' = "loop"
                /\ UNCHANGED << error, buildArgs >>
           ELSE /\ Throw(unique.err)
                /\ UNCHANGED << outputs, idx >>

\* the branch arm asking the registry before it consults the watch gate
ProcessImage_ChecksBeforeGate ==
    /\ pc = "loop"
    /\ idx <= Len(imageBuildSpecs.items)
    /\ LET spec == imageBuildSpecs.items[idx]
       IN  IF OnTagPush(gitRef, spec)
           THEN BuildImage(spec, spec.imageTagsOnTagPushed.items, << >>)
           ELSE IF OnBranchPush(gitRef, spec)
           THEN BuildImage(spec, spec.imageTagsOnBranchPushed.items, << >>)
           ELSE /\ registry' = Append(registry, NoRequest)
                /\ lookups' = Append(lookups, << >>)
                /\ idx' = idx + 1
                /\ UNCHANGED << pc, error, buildArgs, outputs >>
    /\ UNCHANGED << token, timezone, payload, projectConfig, gitRef, changedFiles,
                    dockerfiles, imageBuildSpecs, templateVariables, actionOutputs,
                    diffFetches, call, ret >>

\* the decision loop fetching the diff anew for every image
ProcessImage_FetchesPerImage ==
    /\ pc = "loop"
    /\ idx <= Len(imageBuildSpecs.items)
    /\ diffFetches' = diffFetches + 1
    /\ \E compare \in { c \in CompareResponses : c.ok } :
        /\ changedFiles' = IF compare.files.kind = "undefined"
                           THEN List(<< >>) ELSE compare.files
        /\ LET spec == imageBuildSpecs.items[idx]
               templates == TemplatesToBuild(gitRef, spec, changedFiles'.items)
           IN  IF templates.kind = "null"
               THEN /\ registry' = Append(registry, NoRequest)
                    /\ lookups' = Append(lookups, << >>)
                    /\ idx' = idx + 1
                    /\ UNCHANGED << pc, error, buildArgs, outputs >>
               ELSE BuildImage(spec, templates.items, << >>)
    /\ UNCHANGED << token, timezone, payload, projectConfig, gitRef,
                    dockerfiles, imageBuildSpecs, templateVariables, actionOutputs,
                    call, ret >>

\* one iteration of the decision loop up to its first await: the image is
\* skipped, or its uniqueness check starts
ProcessImage ==
    /\ pc = "loop"
    /\ idx <= Len(imageBuildSpecs.items)
    /\ LET spec == imageBuildSpecs.items[idx]
           templates == TemplatesToBuild(gitRef, spec, changedFiles.items)
       IN  IF templates.kind = "null"
           THEN /\ registry' = Append(registry, NoRequest)
                /\ lookups' = Append(lookups, << >>)
                /\ idx' = idx + 1
                /\ UNCHANGED << pc, error, buildArgs, outputs >>
           ELSE BuildImage(spec, templates.items, << >>)
    /\ UNCHANGED << token, timezone, payload, projectConfig, gitRef, changedFiles,
                    dockerfiles, imageBuildSpecs, templateVariables, actionOutputs,
                    diffFetches, call, ret >>

\* the registry answers the request the uniqueness check of the current
\* image awaits, and the iteration goes on from that await with the
\* templates of the arm it is in
RegistryAnswers ==
    /\ pc = "registry"
    /\ LET spec == imageBuildSpecs.items[idx]
           templates == IF OnTagPush(gitRef, spec)
                        THEN spec.imageTagsOnTagPushed
                        ELSE spec.imageTagsOnBranchPushed
       IN  \E response \in RegistryResponses :
               BuildImage(spec, templates.items, Append(registry[idx].answers, response))
    /\ UNCHANGED << token, timezone, payload, projectConfig, gitRef, changedFiles,
                    dockerfiles, imageBuildSpecs, templateVariables, actionOutputs,
                    diffFetches, call, ret >>

\* return outputs
Return ==
    /\ pc = "loop"
    /\ idx > Len(imageBuildSpecs.items)
    /\ buildArgs' = List(outputs)
    /\ pc' = "returned"
    /\ UNCHANGED << token, timezone, payload, projectConfig, gitRef, changedFiles,
                    dockerfiles, imageBuildSpecs, templateVariables, idx, registry,
                    lookups, outputs, error, actionOutputs, diffFetches, call, ret >>

\* main after generateBuildArgs resolved
MainSetOutput ==
    /\ pc = "returned"
    /\ actionOutputs' =
          [ build_args |-> buildArgs,
            has_builds |-> IF Len(buildArgs.items) = 0 THEN Str("false") ELSE Str("true"),
            failed |-> Undefined ]
    /\ pc' = "done"
    /\ UNCHANGED << token, timezone, payload, projectConfig, gitRef, changedFiles,
                    dockerfiles, imageBuildSpecs, templateVariables, idx, registry,
                    lookups, outputs, error, buildArgs, diffFetches, call, ret >>

\* catch (error) { setFailed(...) }
MainCatch ==
    /\ pc = "thrown"
    /\ actionOutputs' = [ actionOutputs EXCEPT !.failed = [ kind |-> "message", of |-> error ] ]
    /\ pc' = "failed"
    /\ UNCHANGED << token, timezone, payload, projectConfig, gitRef, changedFiles,
                    dockerfiles, imageBuildSpecs, templateVariables, idx, registry,
                    lookups, outputs, error, buildArgs, diffFetches, call, ret >>

Next ==
    \/ MainStart
    \/ CheckToken
    \/ LoadConfig
    \/ ValidateTemplates
    \/ CheckContext
    \/ ParseRef
    \/ FetchChanges
    \/ CompareAnswers
    \/ Discover
    \/ BuildSpecs
    \/ CreateVars
    \/ ProcessImage
    \/ RegistryAnswers
    \/ Return
    \/ MainSetOutput
    \/ MainCatch

Spec == Init /\ [][Next]_vars

-----------------------------------------------------------------------------
(* The function harness: one call of an exported function on drawn inputs *)

TAG_V2 == << "v", "2" >>
SHA_SHORT == << "a", "b", "c", "1", "2", "3", "4" >>
IMAGE_MY_APP == << "m", "y", "-", "a", "p", "p" >>
IMAGE_ORG_API == << "o", "r", "g", "/", "a", "p", "i" >>

UniqueTagTemplates ==
    { << >>,
      << LATEST >>,
      << LATEST, LATEST >>,
      << Placeholder(K_TAG) >>,
      << Placeholder(K_TAG), LATEST >>,
      << T_DEV, Placeholder(K_TAG) >>,
      << LATEST, Placeholder(K_SHA), T_DEV >> }

UniqueTagVariables ==
    { << [ key |-> K_TAG, value |-> TAG_V1 ], [ key |-> K_SHA, value |-> SHA_SHORT ] >>,
      << [ key |-> K_SHA, value |-> SHA_SHORT ], [ key |-> K_TAG, value |-> LATEST ] >> }

\* how many requests of one ensureUniqueTag call the registry answers
MaxRequests == 3

UniqueTagResponses ==
    { [ status |-> "notfound" ],
      [ status |-> "failure" ],
      [ status |-> "ok", versions |-> << >> ],
      [ status |-> "ok", versions |-> << << TAG_V1, LATEST >> >> ],
      [ status |-> "ok", versions |-> << << TAG_V2 >>, << T_DEV, TAG_V1 >> >> ],
      [ status |-> "ok", versions |-> << << >>, << SHA_SHORT, LATEST >> >> ] }

EnsureUniqueTagCalls ==
    [ fn : { "ensureUniqueTag" },
      tags : UniqueTagTemplates,
      variables : UniqueTagVariables,
      responses : [ 1..MaxRequests -> UniqueTagResponses ],
      imageName : { IMAGE_MY_APP, IMAGE_ORG_API },
      requests : { 0 } ]

WatchLists ==
    { << >>,
      << F_DOCKERFILE >>,
      << W_SRC >>,
      << F_DOCKERFILE, << "p", "a", "c", "k", "a", "g", "e", ".", "j", "s", "o", "n" >>, W_SRC >>,
      << << "*", ".", "j", "s", "o", "n" >>, << "d", "o", "c", "s", "/", "*" >> >>,
      << << "s", "r", "c", "/", "*", "*", "/", "*", ".", "j", "s" >> >> }

ChangedLists ==
    { << >>,
      << << "R", "E", "A", "D", "M", "E", ".", "m", "d" >> >>,
      << << "s", "r", "c", "/", "a", "p", "p", ".", "j", "s" >>, << "R", "E", "A", "D", "M", "E", ".", "m", "d" >> >>,
      << << "p", "a", "c", "k", "a", "g", "e", ".", "j", "s", "o", "n" >> >>,
      << << "d", "o", "c", "s", "/", "p", "a", "c", "k", "a", "g", "e", ".", "j", "s", "o", "n" >> >>,
      << << "R", "E", "A", "D", "M", "E", ".", "m", "d" >>, F_DOCKERFILE >>,
      << << "s", "r", "c", "/", "s", "t", "y", "l", "e", "s", ".", "c", "s", "s" >> >> }

IsBuildRequiredCalls ==
    [ fn : { "isBuildRequired" }, watchFiles : WatchLists, changed : ChangedLists ]

MatchFilenames ==
    { << "p", "a", "c", "k", "a", "g", "e", ".", "j", "s", "o", "n" >>,
      << "d", "o", "c", "s", "/", "p", "a", "c", "k", "a", "g", "e", ".", "j", "s", "o", "n" >>,
      << "s", "r", "c", "/", "a", "/", "b", "/", "i", "n", "d", "e", "x", ".", "j", "s" >>,
      << "s", "r", "c", "/", "i", "n", "d", "e", "x", ".", "j", "s" >>,
      << "s", "r", "c", "/", "c", "o", "m", "p", "o", "n", "e", "n", "t", "s", "/", "A", "p", "p", ".", "j", "s" >>,
      << "s", "r", "c", "/", "s", "t", "y", "l", "e", "s", ".", "c", "s", "s" >>,
      << "*", ".", "j", "s", "o", "n" >>,
      << "R", "E", "A", "D", "M", "E", ".", "m", "d" >>,
      << "l", "i", "b", "/", "s", "r", "c", "/", "i", "n", "d", "e", "x", ".", "j", "s" >>,
      << "a", ".", "j", "s", "o", "n", "/", "b" >>,
      << "s", "r", "c", "/", "*", "*", "/", "i", "n", "d", "e", "x", ".", "j", "s" >>,
      << "s", "r", "c", "s", "/", "x", ".", "j", "s" >> }

MatchPatterns ==
    { << "*", ".", "j", "s", "o", "n" >>,
      << "*", ".", "j", "s" >>,
      << "*", "." >>,
      << "*" >>,
      << "s", "r", "c", "/", "*", "*", "/", "*" >>,
      << "s", "r", "c", "/", "*", "*", "/", "*", ".", "j", "s" >>,
      << "s", "r", "c", "/", "*", "*", "/", "i", "n", "d", "e", "x", ".", "j", "s" >>,
      << "s", "r", "c", "/", "*", "*", "/", "*", "i", "n", "d", "e", "x", ".", "j", "s" >>,
      << "d", "o", "c", "s", "/", "*" >>,
      << "s", "r", "c", "/", "*", ".", "j", "s" >>,
      << "p", "a", "c", "k", "a", "g", "e", ".", "j", "s", "o", "n" >>,
      << "*", "*", "/", "*", ".", "j", "s" >> }

MatchesPatternCalls ==
    [ fn : { "matchesPattern" }, filename : MatchFilenames, pattern : MatchPatterns ]

RenderTemplates ==
    { << >>,
      << << "{", "t", "a", "g", "}" >>, << "{", "b", "r", "a", "n", "c", "h", "}", "-", "{", "s", "h", "a", "}" >> >>,
      << << "{", "t", "a", "g", "}" >>, << "{", "b", "r", "a", "n", "c", "h", "}", "-", "{", "m", "i", "s", "s", "i", "n", "g", "}" >> >>,
      << << "{", "s", "h", "a", "}", "{", "s", "h", "a", "}" >>, << "l", "a", "t", "e", "s", "t" >> >>,
      << << "{", "t", "a", "g", "}", "-", "{", "t", "a", "g", "}" >>, << "x", "{" >>, << "{", "}" >> >> }

RenderVariables ==
    { << [ key |-> << "t", "a", "g" >>, value |-> << "v", "1" >> ], [ key |-> << "b", "r", "a", "n", "c", "h" >>, value |-> << "m", "a", "i", "n" >> ], [ key |-> << "s", "h", "a" >>, value |-> << "a", "b", "c", "1", "2", "3", "4" >> ] >>,
      << [ key |-> << "t", "a", "g" >>, value |-> << "v", "1" >> ], [ key |-> << "b", "r", "a", "n", "c", "h" >>, value |-> << "m", "a", "i", "n" >> ] >>,
      << >>,
      << [ key |-> << "s", "h", "a" >>, value |-> << "a", "b", "c", "1", "2", "3", "4" >> ], [ key |-> << "t", "a", "g" >>, value |-> << "v", "1", "$", "$" >> ] >>,
      << [ key |-> << "s", "h", "a" >>, value |-> << "a", "b", "c", "1", "2", "3", "4" >> ], [ key |-> << "b", "r", "a", "n", "c", "h" >>, value |-> << "f", "i", "x", "$", "&" >> ], [ key |-> << "t", "a", "g" >>, value |-> << "$", APOSTROPHE >> ] >>,
      << [ key |-> << "s", "h", "a" >>, value |-> << "a", "b", "c", "1", "2", "3", "4" >> ], [ key |-> << "t", "a", "g" >>, value |-> << "x", "$", GRAVE >> ] >>,
      << [ key |-> << "s", "h", "a" >>, value |-> << "a", "b", "c", "1", "2", "3", "4" >> ], [ key |-> << "b", "r", "a", "n", "c", "h" >>, value |-> << "r", "e", "l", "{", "t", "a", "g", "}" >> ], [ key |-> << "t", "a", "g" >>, value |-> << "v", "1" >> ] >> }

GenerateTagsCalls ==
    [ fn : { "generateTags" }, templates : RenderTemplates, variables : RenderVariables ]

ValidatedTemplates ==
    { << >>,
      << << "{", "t", "a", "g", "}" >>, << "{", "b", "r", "a", "n", "c", "h", "}", "-", "{", "s", "h", "a", "}" >>, << "{", "t", "i", "m", "e", "s", "t", "a", "m", "p", "}" >> >>,
      << << "{", "t", "a", "g", "}" >>, << "{", "b", "r", "a", "n", "c", "h", "}", "-", "{", "m", "i", "s", "s", "i", "n", "g", "}" >> >>,
      << << "{", "t", "a", "g", "}" >>, << "{", "u", "n", "k", "n", "o", "w", "n", "}", "-", "{", "m", "i", "s", "s", "i", "n", "g", "}" >> >>,
      << << "{", "m", "i", "s", "s", "i", "n", "g", "}" >>, << "{", "m", "i", "s", "s", "i", "n", "g", "}", "-", "{", "t", "a", "g", "}" >> >>,
      << << "{", "b", "}", "-", "{", "a", "}" >>, << "{", "a", "}", "{", "c", "}", "{", "b", "}" >> >>,
      << << "{", "{", "x", "}" >>, << "{", "}" >>, << "{", "a", " ", "b", "}" >>, << "{", "a" >>, << "a", "}" >> >>,
      << << "{", "s", "h", "a", "}", "{", "s", "h", "a", "}" >> >> }

AllowedVariables ==
    { << << "t", "a", "g" >>, << "b", "r", "a", "n", "c", "h" >>, << "s", "h", "a" >>, << "t", "i", "m", "e", "s", "t", "a", "m", "p" >> >>,
      << >>,
      << << "t", "a", "g" >> >> }

ValidateTemplateVariablesCalls ==
    [ fn : { "validateTemplateVariables" },
      templates : ValidatedTemplates,
      availableVariables : AllowedVariables ]

GitRefs ==
    { << "r", "e", "f", "s", "/", "h", "e", "a", "d", "s", "/", "m", "a", "i", "n" >>,
      << "r", "e", "f", "s", "/", "t", "a", "g", "s", "/", "v", "1" >>,
      << "r", "e", "f", "s", "/", "p", "u", "l", "l", "/", "1", "/", "m", "e", "r", "g", "e" >>,
      << "r", "e", "f", "s", "/", "h", "e", "a", "d", "s", "/" >>,
      << "r", "e", "f", "s", "/", "t", "a", "g", "s", "/" >>,
      << "r", "e", "f", "s", "/", "h", "e", "a", "d", "s", "/", "r", "e", "f", "s", "/", "h", "e", "a", "d", "s", "/", "x" >>,
      << "r", "e", "f", "s", "/", "t", "a", "g", "s", "/", "r", "e", "f", "s", "/", "h", "e", "a", "d", "s", "/", "x" >>,
      << "x", "r", "e", "f", "s", "/", "h", "e", "a", "d", "s", "/", "y" >>,
      << "r", "e", "f", "s", "/", "h", "e", "a", "d", "s", "/", "f", "e", "a", "t", "u", "r", "e", "/", "a" >>,
      << >>,
      << "r", "e", "f", "s", "/", "h", "e", "a", "d", "/", "x" >>,
      << "m", "a", "i", "n" >>,
      << "r", "e", "f", "s", "/", "t", "a", "g", "s", "/", "a", "/", "r", "e", "f", "s", "/", "t", "a", "g", "s", "/", "b" >> }

ParseGitRefCalls == [ fn : { "parseGitRef" }, ref : GitRefs ]

WalkedTrees ==
    { Dir(<< >>, TRUE, << >>),
      Dir(<< >>, TRUE, << File(<< "D", "o", "c", "k", "e", "r", "f", "i", "l", "e" >>, << FromLine >>), README >>),
      Dir(<< >>, TRUE, << File(<< "d", "o", "c", "k", "e", "r", "f", "i", "l", "e" >>, << FromLine >>), File(<< "D", "o", "c", "k", "e", "r", "f", "i", "l", "e", "-", "o", "l", "d" >>, << FromLine >>), File(<< "D", "o", "c", "k", "e", "r", "f", "i", "l", "e", ".", "p", "r", "o", "d" >>, << FromLine >>), File(<< "x", "D", "o", "c", "k", "e", "r", "f", "i", "l", "e" >>, << FromLine >>) >>),
      Dir(<< >>, TRUE, << Dir(<< "a", "p", "i" >>, TRUE, << File(<< "D", "o", "c", "k", "e", "r", "f", "i", "l", "e" >>, << FromLine >>) >>), File(<< "D", "o", "c", "k", "e", "r", "f", "i", "l", "e" >>, << FromLine >>), Dir(<< "w", "e", "b" >>, TRUE, << Dir(<< "a", "p", "p" >>, TRUE, << File(<< "D", "o", "c", "k", "e", "r", "f", "i", "l", "e", ".", "d", "e", "v" >>, << FromLine >>) >>) >>) >>),
      Dir(<< >>, TRUE, << Dir(<< "n", "o", "d", "e", "_", "m", "o", "d", "u", "l", "e", "s" >>, TRUE, << File(<< "D", "o", "c", "k", "e", "r", "f", "i", "l", "e" >>, << FromLine >>) >>), Dir(<< "s", "r", "c" >>, TRUE, << Dir(<< "d", "i", "s", "t" >>, TRUE, << File(<< "D", "o", "c", "k", "e", "r", "f", "i", "l", "e" >>, << FromLine >>) >>), File(<< "D", "o", "c", "k", "e", "r", "f", "i", "l", "e" >>, << FromLine >>) >>) >>),
      Dir(<< >>, TRUE, << Dir(<< "D", "o", "c", "k", "e", "r", "f", "i", "l", "e" >>, TRUE, << File(<< "R", "E", "A", "D", "M", "E", ".", "m", "d" >>, << FromLine >>) >>), Dir(<< "n", "o", "d", "e", "_", "m", "o", "d", "u", "l", "e", "s" >>, FALSE, << >>) >>),
      Dir(<< >>, TRUE, << File(<< "D", "o", "c", "k", "e", "r", "f", "i", "l", "e" >>, << FromLine >>), Dir(<< "p", "r", "i", "v", "a", "t", "e" >>, FALSE, << >>), Dir(<< "w", "e", "b" >>, TRUE, << File(<< "D", "o", "c", "k", "e", "r", "f", "i", "l", "e" >>, << FromLine >>) >>) >>),
      Dir(<< >>, TRUE, << Dir(<< "a", "p", "i" >>, TRUE, << Dir(<< "s", "e", "c", "r", "e", "t", "s" >>, FALSE, << >>), File(<< "D", "o", "c", "k", "e", "r", "f", "i", "l", "e" >>, << FromLine >>) >>) >>),
      Dir(<< >>, TRUE, << Dir(<< "p", "r", "i", "v", "a", "t", "e" >>, FALSE, << >>) >>),
      Dir(<< >>, FALSE, << >>) }

FindDockerfilesCalls == [ fn : { "findDockerfiles" }, tree : WalkedTrees ]

FnCalls ==
    EnsureUniqueTagCalls \cup IsBuildRequiredCalls \cup MatchesPatternCalls
    \cup GenerateTagsCalls \cup ValidateTemplateVariablesCalls \cup ParseGitRefCalls
    \cup FindDockerfilesCalls

InitFn ==
    /\ pc = "fn"
    /\ token = << >>
    /\ timezone = << >>
    /\ payload = Undefined
    /\ projectConfig = Undefined
    /\ gitRef = Undefined
    /\ changedFiles = Undefined
    /\ dockerfiles = Undefined
    /\ imageBuildSpecs = Undefined
    /\ templateVariables = Undefined
    /\ idx = 0
    /\ registry = << >>
    /\ lookups = << >>
    /\ outputs = << >>
    /\ error = NoError
    /\ buildArgs = Undefined
    /\ actionOutputs = NoOutputs
    /\ diffFetches = 0
    /\ call \in FnCalls
    /\ ret = Undefined

Returned(v) == [ kind |-> "returned", val |-> v ]

\* ensureUniqueTag up to its next await, the registry having answered the
\* first `answered` of its requests: it returns or throws, or it makes one
\* more request (call.requests counts them) and waits for the answer
EnsureUniqueTagRuns(answered) ==
    LET unique == ensureUniqueTag(call.tags, call.variables,
                                  SubSeq(call.responses, 1, answered), call.imageName)
    IN  IF "pending" \in DOMAIN unique
        THEN /\ call' = [ call EXCEPT !.requests = Len(unique.lookups) ]
             /\ UNCHANGED ret
        ELSE /\ ret' = Returned(unique)
             /\ UNCHANGED call

CallEnsureUniqueTag ==
    /\ call.fn = "ensureUniqueTag"
    /\ ret = Undefined
    /\ call.requests = 0
    /\ EnsureUniqueTagRuns(0)
    /\ UNCHANGED runVars

\* the registry answers the request ensureUniqueTag is waiting for
EnsureUniqueTagAnswered ==
    /\ call.fn = "ensureUniqueTag"
    /\ ret = Undefined
    /\ call.requests \in 1..Len(call.responses)
    /\ EnsureUniqueTagRuns(call.requests)
    /\ UNCHANGED runVars

CallIsBuildRequired ==
    /\ call.fn = "isBuildRequired"
    /\ ret = Undefined
    /\ ret' = Returned(isBuildRequired(call.watchFiles, call.changed))
    /\ UNCHANGED << call, runVars >>

CallMatchesPattern ==
    /\ call.fn = "matchesPattern"
    /\ ret = Undefined
    /\ ret' = Returned(matchesPattern(call.filename, call.pattern))
    /\ UNCHANGED << call, runVars >>

CallGenerateTags ==
    /\ call.fn = "generateTags"
    /\ ret = Undefined
    /\ ret' = Returned(generateTags(call.templates, call.variables))
    /\ UNCHANGED << call, runVars >>

CallValidateTemplateVariables ==
    /\ call.fn = "validateTemplateVariables"
    /\ ret = Undefined
    /\ ret' = Returned(validateTemplateVariables(call.templates, call.availableVariables))
    /\ UNCHANGED << call, runVars >>

CallParseGitRef ==
    /\ call.fn = "parseGitRef"
    /\ ret = Undefined
    /\ ret' = Returned(parseGitRef(call.ref))
    /\ UNCHANGED << call, runVars >>

CallFindDockerfiles ==
    /\ call.fn = "findDockerfiles"
    /\ ret = Undefined
    /\ ret' = Returned(findDockerfiles(call.tree))
    /\ UNCHANGED << call, runVars >>

NextFn ==
    \/ CallEnsureUniqueTag
    \/ EnsureUniqueTagAnswered
    \/ CallIsBuildRequired
    \/ CallMatchesPattern
    \/ CallGenerateTags
    \/ CallValidateTemplateVariables
    \/ CallParseGitRef
    \/ CallFindDockerfiles

SpecFn == InitFn /\ [][NextFn]_vars

-----------------------------------------------------------------------------
(* Vocabulary of the properties, stated on the inputs of the run rather    *)
(* than on what the code derived from them                                 *)

Min(a, b) == IF a < b THEN a ELSE b

\* the lines at the top of a Dockerfile where directives are read
ScannedPositions(file) == 1..Min(Len(file.lines), ScanLines)

ScannedLine(file, j) == file.lines[j]

\* positions of the comment lines "# k: value" among them, whatever the
\* line ends of the file are
DirectivePositions(file, k) == { j \in ScannedPositions(file) : file.lines[j].key = k }

DirectivePresent(file, k) == DirectivePositions(file, k) # { }

\* the last line carrying directive k
DirectiveLine(file, k) ==
    LET at == DirectivePositions(file, k)
    IN  file.lines[CHOOSE j \in at : \A m \in at : m <= j]

\* directive k holds a value: null or a JSON array for the tag templates, a
\* JSON array for watchFiles
HasValue(file, k) ==
    \/ DirectiveLine(file, k).json = "array"
    \/ DirectiveLine(file, k).json = "null" /\ k \in TagDirectiveKeys

\* the value it holds
DirectiveValue(file, k) ==
    IF DirectiveLine(file, k).json = "null" THEN Null
    ELSE List(DirectiveLine(file, k).items)

\* the image directive names an image
NamesImage(file) ==
    DirectivePresent(file, "image") /\ Trim(DirectiveLine(file, "image").rest) # << >>

\* every tag / watch directive of the file holds null or a JSON array
WellFormed(file) ==
    \A j \in ScannedPositions(file) :
        LET line == ScannedLine(file, j)
        IN  /\ line.key \in TagDirectiveKeys => line.json \in { "null", "array" }
            /\ line.key = "watchFiles" => line.json = "array"

OverridableFields == { "imageTagsOnTagPushed", "imageTagsOnBranchPushed", "watchFiles" }

SpecsBuilt == imageBuildSpecs.kind = "list"
LoopStarted == templateVariables.kind = "list"
Discovered == dockerfiles.kind = "list"
NothingEmitted ==
    /\ buildArgs = Undefined
    /\ actionOutputs.build_args = Undefined
    /\ actionOutputs.has_builds = Undefined

\* the directive key of the triggering event type
EventKey == IF Truthy(gitRef.tag) THEN "imageTagsOnTagPushed" ELSE "imageTagsOnBranchPushed"

\* image i carries the literal null for the triggering event type
DisabledByDirective(i) ==
    /\ DirectivePresent(dockerfiles.items[i], EventKey)
    /\ DirectiveLine(dockerfiles.items[i], EventKey).json = "null"

\* the rendered tags of image i for the triggering event
RenderedTags(i) ==
    generateTags(imageBuildSpecs.items[i][EventKey].items, templateVariables.items)

\* the answers to the requests made for image i
Answers(i) == IF registry[i].status = "asked" THEN registry[i].answers ELSE << >>

\* the uniqueness check of image i awaits the answer to a request
AwaitingAnswer(i) == pc = "registry" /\ i = idx

\* the answer to the request that looked tag up for image i lists it
Published(i, tag) ==
    \E l \in DOMAIN Answers(i) :
        /\ lookups[i][l].tag = tag
        /\ Answers(i)[l].status = "ok"
        /\ \E v \in DOMAIN Answers(i)[l].versions : tag \in Range(Answers(i)[l].versions[v])

\* the instructions of image i are part of the local output list
EmittedLocally(i) ==
    \A t \in DOMAIN RenderedTags(i) :
        \E o \in DOMAIN outputs :
            outputs[o] = [ dockerfilePath |-> dockerfiles.items[i].path,
                           imageName |-> imageBuildSpecs.items[i].imageName,
                           imageTag |-> RenderedTags(i)[t] ]

-----------------------------------------------------------------------------
(* C1: all-or-nothing.  Whenever the run has thrown (at any step, whatever *)
(* the error), generateBuildArgs returns nothing to main and the           *)
(* entrypoint sets neither build_args nor has_builds: it only calls        *)
(* setFailed with the error.  In particular when the registry reports a    *)
(* tag of the k-th image as published, nothing is returned or set, even    *)
(* though earlier images already passed and sit in the local list.         *)
C1_AllOrNothing ==
    /\ error # NoError =>
          /\ pc \in { "thrown", "failed" }
          /\ NothingEmitted
          /\ (pc = "failed" => actionOutputs.failed = [ kind |-> "message", of |-> error ])
    /\ actionOutputs.failed # Undefined => NothingEmitted /\ error # NoError
    /\ \A i \in DOMAIN registry :
          (/\ registry[i].status = "asked"
           /\ \E l \in DOMAIN Answers(i) :
                 lookups[i][l].tag \in Range(RenderedTags(i)) \ { LATEST }
                 /\ Published(i, lookups[i][l].tag))
          => /\ NothingEmitted
             /\ error.kind = "collision"

\* the second image collides after the first one passed its check
C1_Witness ==
    /\ pc = "failed"
    /\ error.kind = "collision"
    /\ Len(registry) = 2
    /\ outputs # << >>
    /\ actionOutputs.failed # Undefined

-----------------------------------------------------------------------------
(* C2: with registry requests that succeed, ensureUniqueTag fails iff some  *)
(* rendered tag other than 'latest' is listed by the registry's answer to  *)
(* the request for it; the error then cites imageName:tag for the first    *)
(* such tag in template order; otherwise it completes without error.       *)

\* the request that looks up the t-th rendered tag: one request per tag
\* other than 'latest', in order
C2_RequestFor(rendered, t) == Cardinality({ u \in 1..t : rendered[u] # LATEST })

C2_Succeeding(c) == \A k \in DOMAIN c.responses : c.responses[k].status = "ok"

C2_Colliding(c) ==
    LET rendered == generateTags(c.tags, c.variables)
    IN  { t \in DOMAIN rendered :
            /\ rendered[t] # LATEST
            /\ \E v \in DOMAIN c.responses[C2_RequestFor(rendered, t)].versions :
                  rendered[t] \in Range(c.responses[C2_RequestFor(rendered, t)].versions[v]) }

C2_TagCollision ==
    (call.fn = "ensureUniqueTag" /\ ret # Undefined /\ C2_Succeeding(call)) =>
        LET rendered == generateTags(call.tags, call.variables)
            colliding == C2_Colliding(call)
        IN  /\ ret.val.ok <=> colliding = { }
            /\ colliding # { } =>
                  LET first == CHOOSE t \in colliding : \A u \in colliding : t <= u
                  IN  ret.val.err = [ kind |-> "collision",
                                      cite |-> [ image |-> call.imageName,
                                                 tag |-> rendered[first] ] ]

\* two templates collide and the error cites the first of them
C2_Witness ==
    /\ call.fn = "ensureUniqueTag"
    /\ ret # Undefined
    /\ C2_Succeeding(call)
    /\ Cardinality(C2_Colliding(call)) = 2
    /\ ~ret.val.ok
    /\ ret.val.err.cite.tag = T_DEV

-----------------------------------------------------------------------------
(* C3: a uniqueness request whose rendered tags are all the literal        *)
(* 'latest' never throws and makes no registry request, whatever the       *)
(* registry holds and also when a request would be rejected.               *)
C3_AllLatest(c) ==
    LET rendered == generateTags(c.tags, c.variables)
    IN  \A t \in DOMAIN rendered : rendered[t] = LATEST

C3_OnlyLatestNeverThrows ==
    (call.fn = "ensureUniqueTag" /\ ret # Undefined /\ C3_AllLatest(call)) =>
        /\ ret.val.ok
        /\ ret.val.lookups = << >>

\* 'latest' rendered from a template, against a registry that rejects requests
C3_Witness ==
    /\ call.fn = "ensureUniqueTag"
    /\ ret # Undefined
    /\ call.tags = << Placeholder(K_TAG), LATEST >>
    /\ C3_AllLatest(call)
    /\ \A k \in DOMAIN call.responses : call.responses[k].status = "failure"
    /\ ret.val.ok

-----------------------------------------------------------------------------
(* C4: when the registry request for an image is rejected with a clean     *)
(* not-found (the package was never published), the tag counts as not      *)
(* existing: the uniqueness check passes and the run goes on to emit the   *)
(* image's instructions.                                                   *)
C4_NotFoundMeansAbsent ==
    \A i \in DOMAIN registry :
        (/\ ~AwaitingAnswer(i)
         /\ \E l \in DOMAIN Answers(i) : Answers(i)[l].status = "notfound"
         /\ \A l \in DOMAIN Answers(i) : Answers(i)[l].status # "failure"
         /\ \A l \in DOMAIN Answers(i) : ~Published(i, lookups[i][l].tag))
        => /\ error = NoError
           /\ EmittedLocally(i)

-----------------------------------------------------------------------------
(* C5: a registry request rejected with anything but a not-found is never  *)
(* read as "tag does not exist": checkImageTagExists and ensureUniqueTag   *)
(* reject with the underlying error, the run fails with that error at that *)
(* image, and nothing is emitted.                                          *)
C5_RegistryFailurePropagates ==
    \A i \in DOMAIN registry : \A l \in DOMAIN Answers(i) :
        Answers(i)[l].status = "failure" =>
            /\ checkImageTagExists(Answers(i)[l], lookups[i][l].image, lookups[i][l].tag)
                  = [ ok |-> FALSE, err |-> [ kind |-> "registry", cite |-> "failure" ] ]
            /\ error = [ kind |-> "registry", cite |-> "failure" ]
            /\ i = Len(registry)
            /\ l = Len(Answers(i))
            /\ pc \in { "thrown", "failed" }
            /\ NothingEmitted

\* the request for the second image is rejected after the first image was built
C5_Witness ==
    /\ pc = "failed"
    /\ Len(registry) = 2
    /\ \E l \in DOMAIN Answers(2) : Answers(2)[l].status = "failure"
    /\ outputs # << >>

-----------------------------------------------------------------------------
(* C6: per-field override.  For every discovered Dockerfile and each of    *)
(* the three fields, the ImageBuildSpec holds the directive's value when   *)
(* the directive is present (and holds a value) and the project            *)
(* configuration's value when it is absent, whatever the other two         *)
(* directives are.                                                         *)
C6_PerFieldOverride ==
    SpecsBuilt =>
        /\ Len(imageBuildSpecs.items) = Len(dockerfiles.items)
        /\ \A i \in DOMAIN imageBuildSpecs.items : \A k \in OverridableFields :
              IF ~DirectivePresent(dockerfiles.items[i], k)
              THEN imageBuildSpecs.items[i][k] = projectConfig[k]
              ELSE HasValue(dockerfiles.items[i], k) =>
                      imageBuildSpecs.items[i][k] = DirectiveValue(dockerfiles.items[i], k)

-----------------------------------------------------------------------------
(* C7: a directive with the literal value null disables that event type    *)
(* for that image (even where the project value would have built it): on   *)
(* an event of that type the image makes no registry request, produces no  *)
(* instruction and no error, and the outcome of the loop is the outcome of *)
(* the loop over the other images alone.                                   *)

\* the outcome of the decision loop over the images `order`, given the
\* registry answers the run saw; an image whose check still awaits an
\* answer has added nothing yet
RECURSIVE C7_Decide(_, _)
C7_Decide(order, acc) ==
    IF order = << >> THEN [ ok |-> TRUE, outputs |-> acc ]
    ELSE LET i == Head(order)
             spec == imageBuildSpecs.items[i]
             templates == spec[EventKey]
             gated == EventKey = "imageTagsOnBranchPushed"
                      /\ spec.watchFiles.items # << >>
                      /\ ~\E f \in Range(changedFiles.items), w \in Range(spec.watchFiles.items) :
                            matchesPattern(f, w)
         IN  IF templates.kind = "null" \/ gated THEN C7_Decide(Tail(order), acc)
             ELSE LET unique == ensureUniqueTag(templates.items, templateVariables.items,
                                                Answers(i), spec.imageName)
                  IN  IF "pending" \in DOMAIN unique
                      THEN [ ok |-> TRUE, outputs |-> acc ]
                      ELSE IF unique.ok
                      THEN C7_Decide(Tail(order),
                               acc \o Instructions(spec, generateTags(templates.items,
                                                                      templateVariables.items)))
                      ELSE [ ok |-> FALSE, err |-> unique.err ]

\* the processed images that are not disabled by a null directive, in order
RECURSIVE C7_Others(_)
C7_Others(n) ==
    IF n = 0 THEN << >>
    ELSE IF DisabledByDirective(n) THEN C7_Others(n - 1)
    ELSE Append(C7_Others(n - 1), n)

C7_NullDisables ==
    LoopStarted =>
        /\ \A i \in DOMAIN registry :
              DisabledByDirective(i) =>
                  /\ registry[i] = NoRequest
                  /\ lookups[i] = << >>
                  /\ \A o \in DOMAIN outputs :
                        outputs[o].dockerfilePath # dockerfiles.items[i].path
        /\ LET expected == C7_Decide(C7_Others(Len(registry)), << >>)
           IN  IF expected.ok
               THEN error = NoError /\ outputs = expected.outputs
               ELSE error = expected.err

-----------------------------------------------------------------------------
(* C8: naming policy.  With exactly one Dockerfile the image name is the   *)
(* name its image directive gives, and the repository name when there is   *)
(* none.  With two or more, the specs are built only if every Dockerfile   *)
(* names its image, each then carrying that name; otherwise the run fails  *)
(* with the naming error citing a Dockerfile that names no image.          *)
C8_Unnamed == { i \in DOMAIN dockerfiles.items : ~NamesImage(dockerfiles.items[i]) }

C8_NamingPolicy ==
    /\ (SpecsBuilt /\ Len(dockerfiles.items) = 1) =>
          imageBuildSpecs.items[1].imageName =
              IF NamesImage(dockerfiles.items[1])
              THEN Trim(DirectiveLine(dockerfiles.items[1], "image").rest)
              ELSE payload.repository.name
    /\ (SpecsBuilt /\ Len(dockerfiles.items) >= 2) =>
          \A i \in DOMAIN dockerfiles.items :
              /\ NamesImage(dockerfiles.items[i])
              /\ imageBuildSpecs.items[i].imageName =
                    Trim(DirectiveLine(dockerfiles.items[i], "image").rest)
    /\ (Discovered /\ Len(dockerfiles.items) >= 2 /\ C8_Unnamed # { } /\ pc # "specs") =>
          /\ ~SpecsBuilt
          /\ pc \in { "thrown", "failed" }
          /\ error.kind = "naming"
    /\ error.kind = "naming" =>
          /\ Len(dockerfiles.items) >= 2
          /\ \E i \in C8_Unnamed : error.cite = dockerfiles.items[i].path

-----------------------------------------------------------------------------
(* C9: when discovery returns zero Dockerfiles the run fails with the      *)
(* no-Dockerfiles error and returns nothing (not an empty list), for tag   *)
(* and branch pushes and for every project configuration.                  *)
C9_ZeroDockerfilesFatal ==
    (Discovered /\ dockerfiles.items = << >>) =>
        /\ pc \in { "thrown", "failed" }
        /\ error.kind = "nodockerfiles"
        /\ NothingEmitted

\* a tag push under a project configuration that disables tag pushes
C9_Witness ==
    /\ pc = "failed"
    /\ Discovered
    /\ dockerfiles.items = << >>
    /\ Truthy(gitRef.tag)
    /\ projectConfig.imageTagsOnTagPushed = Null
    /\ error.kind = "nodockerfiles"

-----------------------------------------------------------------------------
(* C10: watch gate.  isBuildRequired is true for every changed-file list   *)
(* (the empty one included) when watchFiles is empty, and otherwise true   *)
(* iff some changed file matches some watch pattern.                       *)
C10_WatchGate ==
    (call.fn = "isBuildRequired" /\ ret # Undefined) =>
        ret.val = IF call.watchFiles = << >> THEN TRUE
                  ELSE \E f \in Range(call.changed), w \in Range(call.watchFiles) :
                          matchesPattern(f, w)

\* nothing watched, nothing changed: build
C10_Witness ==
    /\ call.fn = "isBuildRequired"
    /\ ret # Undefined
    /\ call.watchFiles = << >>
    /\ call.changed = << >>
    /\ ret.val = TRUE

-----------------------------------------------------------------------------
(* C11: a watch pattern "*.ext" (ext without '/') matches a filename iff   *)
(* the filename contains no '/' and ends with ".ext"; a file with that     *)
(* extension inside a directory does not match: package.json matches       *)
(* *.json, docs/package.json does not.                                     *)
C11_Extension(pattern) == SubSeq(pattern, 3, Len(pattern))

C11_IsExtensionPattern(pattern) ==
    /\ Len(pattern) >= 2
    /\ pattern[1] = "*"
    /\ pattern[2] = "."
    /\ "/" \notin Range(C11_Extension(pattern))

C11_AtRootWithExtension(filename, ext) ==
    /\ \A i \in DOMAIN filename : filename[i] # "/"
    /\ \E stem \in 0..Len(filename) :
          filename = SubSeq(filename, 1, stem) \o << "." >> \o ext

C11_RootOnlyExtension ==
    (call.fn = "matchesPattern" /\ ret # Undefined /\ C11_IsExtensionPattern(call.pattern)) =>
        ret.val = C11_AtRootWithExtension(call.filename, C11_Extension(call.pattern))

\* docs/package.json against *.json: the extension fits, the directory does not
C11_Witness ==
    /\ call.fn = "matchesPattern"
    /\ ret # Undefined
    /\ call.pattern = << "*", ".", "j", "s", "o", "n" >>
    /\ call.filename = << "d", "o", "c", "s", "/", "p", "a", "c", "k", "a", "g", "e", ".", "j", "s", "o", "n" >>
    /\ ret.val = FALSE

-----------------------------------------------------------------------------
(* C12: for a watch pattern prefix/**/suffix a filename matches iff it     *)
(* starts with "prefix/" and the suffix is "*", or the suffix is "*.ext"   *)
(* and the filename ends with ".ext", or, for any other suffix, the        *)
(* filename ends with that suffix (src/**/index.js matches                 *)
(* src/a/b/index.js).                                                      *)
C12_Wildcard == << "/", "*", "*", "/" >>

C12_IsRecursivePattern(pattern) ==
    \E i \in 1..(Len(pattern) - 3) : SubSeq(pattern, i, i + 3) = C12_Wildcard

\* position of the first "/**/" of the pattern
C12_At(pattern) ==
    CHOOSE i \in 1..(Len(pattern) - 3) :
        /\ SubSeq(pattern, i, i + 3) = C12_Wildcard
        /\ \A j \in 1..(i - 1) : SubSeq(pattern, j, j + 3) # C12_Wildcard

C12_Prefix(pattern) == SubSeq(pattern, 1, C12_At(pattern))

C12_Suffix(pattern) == SubSeq(pattern, C12_At(pattern) + 4, Len(pattern))

C12_Matches(filename, pattern) ==
    LET prefix == C12_Prefix(pattern)
        suffix == C12_Suffix(pattern)
    IN  /\ StartsWith(filename, prefix)
        /\ IF suffix = << "*" >> THEN TRUE
           ELSE IF StartsWith(suffix, << "*", "." >>)
           THEN EndsWith(filename, Tail(suffix))
           ELSE EndsWith(filename, suffix)

C12_RecursiveWildcard ==
    (call.fn = "matchesPattern" /\ ret # Undefined /\ C12_IsRecursivePattern(call.pattern)) =>
        ret.val = C12_Matches(call.filename, call.pattern)

-----------------------------------------------------------------------------
(* C13: generateTags(templates, vars) returns a list of the same length    *)
(* and order as templates in which every occurrence of every {key} with    *)
(* key in vars is replaced by vars[key] and every other placeholder is     *)
(* left verbatim; rendering never fails.                                   *)

\* the variables whose placeholder stands at position i of the template
C13_PlaceholdersAt(template, i, variables) ==
    { e \in DOMAIN variables :
        /\ i + Len(variables[e].key) + 1 <= Len(template)
        /\ SubSeq(template, i, i + Len(variables[e].key) + 1)
              = << "{" >> \o variables[e].key \o << "}" >> }

\* the template from position i on, each placeholder of a known key
\* replaced by the key's value
RECURSIVE C13_RenderedFrom(_, _, _)
C13_RenderedFrom(template, i, variables) ==
    IF i > Len(template) THEN << >>
    ELSE IF C13_PlaceholdersAt(template, i, variables) # { }
    THEN LET e == CHOOSE e \in C13_PlaceholdersAt(template, i, variables) : TRUE
         IN  variables[e].value \o C13_RenderedFrom(template, i + Len(variables[e].key) + 2, variables)
    ELSE << template[i] >> \o C13_RenderedFrom(template, i + 1, variables)

C13_RendersEveryPlaceholder ==
    (call.fn = "generateTags" /\ ret # Undefined) =>
        /\ Len(ret.val) = Len(call.templates)
        /\ \A t \in DOMAIN call.templates :
              ret.val[t] = C13_RenderedFrom(call.templates[t], 1, call.variables)

-----------------------------------------------------------------------------
(* C14: validateTemplateVariables(templates, allowed) throws iff some      *)
(* {name} token of some template has a name outside allowed; the single    *)
(* error it throws lists every such name exactly once, in the order of     *)
(* first occurrence, however often and in however many templates the name  *)
(* occurs.                                                                 *)

\* the {name} tokens of the templates: << t, i, n >> is a "{" at position i
\* of template t followed by n >= 1 word characters and a "}"
C14_Tokens(templates) ==
    { o \in UNION { { << t, i, n >> : i \in 1..Len(templates[t]), n \in 1..Len(templates[t]) } :
                    t \in DOMAIN templates } :
        LET s == templates[o[1]]
        IN  /\ o[2] + o[3] + 1 <= Len(s)
            /\ s[o[2]] = "{"
            /\ s[o[2] + o[3] + 1] = "}"
            /\ \A k \in (o[2] + 1)..(o[2] + o[3]) : s[k] \in WordChars }

C14_Name(templates, o) == SubSeq(templates[o[1]], o[2] + 1, o[2] + o[3])

C14_Outside(templates, allowed) ==
    { C14_Name(templates, o) : o \in { o \in C14_Tokens(templates) :
        \A a \in DOMAIN allowed : allowed[a] # C14_Name(templates, o) } }

\* token o stands before token q
C14_Before(o, q) == o[1] < q[1] \/ (o[1] = q[1] /\ o[2] < q[2])

\* the first token carrying the name
C14_First(templates, name) ==
    CHOOSE o \in C14_Tokens(templates) :
        /\ C14_Name(templates, o) = name
        /\ \A q \in C14_Tokens(templates) :
              C14_Name(templates, q) = name => (q = o \/ C14_Before(o, q))

C14_ListsEachMissingNameOnce ==
    (call.fn = "validateTemplateVariables" /\ ret # Undefined) =>
        LET outside == C14_Outside(call.templates, call.availableVariables)
        IN  /\ ret.val.ok <=> outside = { }
            /\ ~ret.val.ok =>
                  /\ ret.val.err.kind = "template"
                  /\ Range(ret.val.err.cite) = outside
                  /\ Len(ret.val.err.cite) = Cardinality(outside)
                  /\ \A p, q \in DOMAIN ret.val.err.cite :
                        p < q => C14_Before(C14_First(call.templates, ret.val.err.cite[p]),
                                            C14_First(call.templates, ret.val.err.cite[q]))

\* {b} and {a} occur in two templates each, {c} once: the error lists b, a, c
C14_Witness ==
    /\ call.fn = "validateTemplateVariables"
    /\ ret # Undefined
    /\ call.templates = << << "{", "b", "}", "-", "{", "a", "}" >>, << "{", "a", "}", "{", "c", "}", "{", "b", "}" >> >>
    /\ ~ret.val.ok
    /\ ret.val.err.cite = << << "b" >>, << "a" >>, << "c" >> >>

-----------------------------------------------------------------------------
(* C15: template validation runs before any build decision and covers      *)
(* every template the run could render: when a tag template of the project *)
(* configuration or of a Dockerfile directive references a name outside    *)
(* {tag, branch, sha, timestamp}, the run fails with a template error, no  *)
(* registry uniqueness check is made and no instruction is emitted.        *)
C15_Undeclared(templates) == C14_Outside(templates, AvailableVariables) # { }

C15_InProjectConfig ==
    /\ projectConfig # Undefined
    /\ \E k \in TagDirectiveKeys :
          projectConfig[k].kind = "list" /\ C15_Undeclared(projectConfig[k].items)

C15_InDirective ==
    /\ Discovered
    /\ \E i \in DOMAIN dockerfiles.items, k \in TagDirectiveKeys :
          /\ DirectivePresent(dockerfiles.items[i], k)
          /\ DirectiveLine(dockerfiles.items[i], k).json = "array"
          /\ C15_Undeclared(DirectiveLine(dockerfiles.items[i], k).items)

C15_ValidationCoversEveryTemplate ==
    /\ C15_InProjectConfig => (pc = "validate" \/ error.kind = "template")
    /\ (C15_InProjectConfig \/ C15_InDirective) =>
          /\ \A i \in DOMAIN lookups : lookups[i] = << >>
          /\ outputs = << >>
          /\ NothingEmitted
          /\ (pc = "failed" /\ SpecsBuilt) => error.kind = "template"

-----------------------------------------------------------------------------
(* C16: parseGitRef(ref) returns {branch: rest, tag: null} when ref is     *)
(* 'refs/heads/' followed by rest, {branch: null, tag: rest} when ref is   *)
(* 'refs/tags/' followed by rest, and throws for every other ref; when it  *)
(* returns, exactly one of branch and tag is non-null and rest is the ref  *)
(* with only its leading prefix removed.                                   *)
C16_HeadsPrefix == << "r", "e", "f", "s", "/", "h", "e", "a", "d", "s", "/" >>

C16_TagsPrefix == << "r", "e", "f", "s", "/", "t", "a", "g", "s", "/" >>

\* the text after the first n characters
C16_Rest(ref, n) == [ i \in 1..(Len(ref) - n) |-> ref[i + n] ]

C16_Begins(ref, prefix) ==
    Len(ref) >= Len(prefix) /\ \A i \in DOMAIN prefix : ref[i] = prefix[i]

C16_ParsesRef ==
    (call.fn = "parseGitRef" /\ ret # Undefined) =>
        /\ IF C16_Begins(call.ref, C16_HeadsPrefix)
           THEN /\ ret.val.ok
                /\ ret.val.branch = Str(C16_Rest(call.ref, Len(C16_HeadsPrefix)))
                /\ ret.val.tag = Null
           ELSE IF C16_Begins(call.ref, C16_TagsPrefix)
           THEN /\ ret.val.ok
                /\ ret.val.branch = Null
                /\ ret.val.tag = Str(C16_Rest(call.ref, Len(C16_TagsPrefix)))
           ELSE /\ ~ret.val.ok
                /\ ret.val.err = [ kind |-> "ref", cite |-> call.ref ]
        /\ ret.val.ok => (ret.val.branch = Null) # (ret.val.tag = Null)

\* the prefix occurs twice: only the leading one is removed
C16_Witness ==
    /\ call.fn = "parseGitRef"
    /\ ret # Undefined
    /\ call.ref = << "r", "e", "f", "s", "/", "h", "e", "a", "d", "s", "/", "r", "e", "f", "s", "/", "h", "e", "a", "d", "s", "/", "x" >>
    /\ ret.val.ok
    /\ ret.val.branch = Str(<< "r", "e", "f", "s", "/", "h", "e", "a", "d", "s", "/", "x" >>)
    /\ ret.val.tag = Null

-----------------------------------------------------------------------------
(* C17: the run fails with a missing-context error iff at least one of     *)
(* repository, after-SHA or ref is absent from the event payload; the      *)
(* before-SHA is optional: a payload holding repository, after and ref but *)
(* no before is not rejected for missing context.                          *)
C17_Absent(p) ==
    \/ p.repository = Undefined
    \/ p.after = Undefined
    \/ p.ref = Undefined

C17_BeforeIsOptional ==
    payload # Undefined => (error.kind = "context" <=> C17_Absent(payload))

-----------------------------------------------------------------------------
(* C18, as claimed: if the token is empty or only whitespace, the run      *)
(* fails with the token error before the project config is read, before    *)
(* any remote call and before Dockerfile discovery, whatever the other     *)
(* inputs are: the token error takes priority over every other error.      *)
C18_Blank == \A i \in DOMAIN token : token[i] \in Whitespace

C18_NothingStarted ==
    /\ projectConfig = Undefined
    /\ payload = Undefined
    /\ diffFetches = 0
    /\ lookups = << >>
    /\ dockerfiles = Undefined
    /\ NothingEmitted

C18_TokenErrorTakesPriority ==
    (pc # "main" /\ C18_Blank) =>
        /\ C18_NothingStarted
        /\ pc # "token" => error.kind = "token"

(* C18, amended: if the token is empty or only whitespace, the run fails   *)
(* before the project config is read, before any remote call and before    *)
(* Dockerfile discovery, whatever the other inputs are; its error is the   *)
(* token error unless the entrypoint's DockerHub credential check, which   *)
(* runs before generateBuildArgs is called, has already failed the run.    *)
C18_TokenErrorFirst ==
    (pc # "main" /\ C18_Blank) =>
        /\ C18_NothingStarted
        /\ pc \in { "token", "thrown", "failed" }
        /\ pc # "token" => error.kind \in { "token", "input" }
        /\ error.kind = "input" => error.cite = "registry"
        /\ pc = "failed" => actionOutputs.failed = [ kind |-> "message", of |-> error ]

\* a whitespace token with valid registry inputs: the run failed on the token
C18_Witness ==
    /\ token = << " " >>
    /\ pc = "failed"
    /\ error.kind = "token"
    /\ C18_NothingStarted

-----------------------------------------------------------------------------
(* C19: the repository diff is fetched at most once per run, before the    *)
(* first per-image decision, and the resulting changedFiles list is a      *)
(* read-only snapshot: every image's watch gate of the run is evaluated    *)
(* against the same list and no step of the run modifies it.               *)

\* image i stood at its watch gate: a branch push with branch templates
C19_Gated(i) ==
    /\ Truthy(gitRef.branch)
    /\ ~Truthy(gitRef.tag)
    /\ imageBuildSpecs.items[i].imageTagsOnBranchPushed # Null

\* some file of the snapshot matches some watch pattern of image i, or
\* image i watches nothing
C19_GateOpen(i) ==
    LET watch == imageBuildSpecs.items[i].watchFiles.items
    IN  \/ watch = << >>
        \/ \E f \in DOMAIN changedFiles.items, w \in DOMAIN watch :
              matchesPattern(changedFiles.items[f], watch[w])

C19_FetchedOnceBeforeDecisions ==
    /\ diffFetches <= 1
    /\ changedFiles # Undefined => diffFetches = 1
    /\ LoopStarted => diffFetches = 1 /\ changedFiles # Undefined
    /\ \A i \in DOMAIN registry :
          C19_Gated(i) => (registry[i] # NoRequest <=> C19_GateOpen(i))

C19_DiffSnapshot ==
    /\ []C19_FetchedOnceBeforeDecisions
    /\ [][changedFiles # Undefined => changedFiles' = changedFiles]_vars

\* a branch push over two images: one gate closed and one open on the same list
C19_Witness ==
    /\ diffFetches = 1
    /\ Len(registry) = 2
    /\ C19_Gated(1) /\ C19_Gated(2)
    /\ \E i, j \in DOMAIN registry : ~C19_GateOpen(i) /\ C19_GateOpen(j)
    /\ changedFiles.items # << >>

-----------------------------------------------------------------------------
(* C20: getRepositoryChanges is called iff the event is a branch push      *)
(* whose payload carries a before-SHA; in particular it is never called    *)
(* during a tag-push run.                                                  *)
C20_BranchPushWithBefore ==
    /\ gitRef # Undefined
    /\ gitRef.branch # Null
    /\ payload.before # Undefined

C20_DiffOnlyForBranchPush ==
    /\ diffFetches > 0 => C20_BranchPushWithBefore
    /\ (gitRef # Undefined /\ pc # "diff") =>
          (diffFetches > 0 <=> C20_BranchPushWithBefore)


-----------------------------------------------------------------------------
(* C21: a tag or watchFiles directive whose value is not valid JSON is     *)
(* fatal.  Once the specs of the discovered Dockerfiles have been asked    *)
(* for, if one of them carries, within its scanned lines, an               *)
(* imageTagsOnTagPushed, imageTagsOnBranchPushed or watchFiles directive   *)
(* that JSON.parse rejects, the run has thrown: no spec list exists (the   *)
(* value was not turned into a list), no registry request was made and     *)
(* nothing is emitted.  The error is the configuration error naming that   *)
(* Dockerfile, with the invalid-JSON message when the rejected value is    *)
(* the first ill-formed directive of the file, provided no Dockerfile      *)
(* before it already stopped the run.                                      *)
C21_Rejected(line) == line.key \in OverridableFields /\ line.json = "invalid"

C21_Malformed(file) ==
    \E j \in ScannedPositions(file) : C21_Rejected(ScannedLine(file, j))

\* the rejected value comes before any directive holding valid JSON of the
\* wrong shape
C21_RejectedFirst(file) ==
    \E j \in ScannedPositions(file) :
        /\ C21_Rejected(ScannedLine(file, j))
        /\ \A m \in 1..(j - 1) :
              LET line == ScannedLine(file, m)
              IN  /\ line.key \in TagDirectiveKeys => line.json \in { "null", "array" }
                  /\ line.key = "watchFiles" => line.json = "array"

\* no Dockerfile before the i-th stops the run
C21_ReachesFile(i) ==
    \A m \in 1..(i - 1) :
        /\ WellFormed(dockerfiles.items[m])
        /\ Len(dockerfiles.items) > 1 => NamesImage(dockerfiles.items[m])

C21_SpecsRequested == Discovered /\ dockerfiles.items # << >> /\ pc # "specs"

C21_MalformedDirectiveFatal ==
    C21_SpecsRequested =>
        \A i \in DOMAIN dockerfiles.items :
            C21_Malformed(dockerfiles.items[i]) =>
                /\ pc \in { "thrown", "failed" }
                /\ ~SpecsBuilt
                /\ registry = << >>
                /\ NothingEmitted
                /\ error.kind \in { "directive", "naming" }
                /\ C21_ReachesFile(i) =>
                      /\ error.kind = "directive"
                      /\ error.cite = dockerfiles.items[i].path
                      /\ C21_RejectedFirst(dockerfiles.items[i]) =>
                            error.what = "Invalid JSON syntax"


-----------------------------------------------------------------------------
(* C22: the end-to-end default run.  One root Dockerfile without directive *)
(* comments, no project configuration beyond the built-in defaults, a      *)
(* non-blank token, a timezone, a push to refs/heads/main whose diff lists *)
(* Dockerfile: once the image has been processed, and unless the registry  *)
(* failed or lists the rendered tag as published, the run has not thrown   *)
(* and its instructions are exactly two, both for path Dockerfile and the  *)
(* repository name: main-<12 digits>-<first 7 characters of the SHA>, then *)
(* latest; they are what generateBuildArgs returns and main sets.          *)
C22_Digits == { "0", "1", "2", "3", "4", "5", "6", "7", "8", "9" }

C22_DefaultRun ==
    /\ Discovered
    /\ Trim(token) # << >>
    /\ timezone # << >>
    /\ projectConfig = DefaultProjectConfig
    /\ gitRef.branch = Str(BRANCH_MAIN)
    /\ F_DOCKERFILE \in Range(changedFiles.items)
    /\ dockerfiles.items = << [ path |-> F_DOCKERFILE, lines |-> << FromLine >> ] >>
    /\ Len(registry) = 1

C22_RenderedDefault(imageTag) ==
    /\ Len(imageTag) = 25
    /\ SubSeq(imageTag, 1, 5) = BRANCH_MAIN \o << "-" >>
    /\ \A i \in 6..17 : imageTag[i] \in C22_Digits
    /\ SubSeq(imageTag, 18, 25) = << "-" >> \o SubSeq(payload.after.s, 1, 7)

C22_TwoInstructions(list) ==
    /\ Len(list) = 2
    /\ \A o \in 1..2 :
          /\ list[o].dockerfilePath = F_DOCKERFILE
          /\ list[o].imageName = payload.repository.name
    /\ C22_RenderedDefault(list[1].imageTag)
    /\ list[2].imageTag = LATEST

C22_DefaultRunSucceeds ==
    (/\ C22_DefaultRun
     /\ ~AwaitingAnswer(1)
     /\ \A l \in DOMAIN Answers(1) : Answers(1)[l].status # "failure"
     /\ \A t \in DOMAIN RenderedTags(1) :
           RenderedTags(1)[t] # LATEST => ~Published(1, RenderedTags(1)[t]))
    => /\ error = NoError
       /\ C22_TwoInstructions(outputs)
       /\ pc \in { "returned", "done" } => buildArgs = List(outputs)
       /\ pc = "done" => actionOutputs.build_args = buildArgs


-----------------------------------------------------------------------------
(* C23: order and count of the output.  In a run that has not thrown, the  *)
(* instruction list is the concatenation, over the processed images in     *)
(* discovery order, of one instruction per template of the image's         *)
(* effective template list for the triggering event, in template order,    *)
(* each carrying the image's Dockerfile path and name; an image for which  *)
(* nothing was requested contributes nothing, so the length is the sum of  *)
(* the template counts of the built images.  That list is what is returned *)
(* and set as build_args.                                                  *)
\* image i was built: its uniqueness check was made and has completed
C23_Built(i) == registry[i] # NoRequest /\ i < idx

C23_Templates(i) == imageBuildSpecs.items[i][EventKey].items

\* the number of instructions the first n images account for
RECURSIVE C23_Count(_)
C23_Count(n) ==
    IF n = 0 THEN 0
    ELSE C23_Count(n - 1) + (IF C23_Built(n) THEN Len(C23_Templates(n)) ELSE 0)

C23_OrderAndCount ==
    (LoopStarted /\ error = NoError) =>
        /\ Len(outputs) = C23_Count(Len(registry))
        /\ \A i \in DOMAIN registry :
              C23_Built(i) =>
                 \A t \in DOMAIN C23_Templates(i) :
                    outputs[C23_Count(i - 1) + t] =
                       [ dockerfilePath |-> dockerfiles.items[i].path,
                         imageName |-> imageBuildSpecs.items[i].imageName,
                         imageTag |-> RenderedTags(i)[t] ]
        /\ pc \in { "returned", "done" } =>
              /\ Len(registry) = Len(dockerfiles.items)
              /\ buildArgs = List(outputs)
        /\ pc = "done" => actionOutputs.build_args = List(outputs)

\* two images built on one push, the first with two templates, the second
\* with one
C23_Witness ==
    /\ pc = "done"
    /\ Len(registry) = 2
    /\ C23_Built(1) /\ C23_Built(2)
    /\ Len(C23_Templates(1)) = 2 /\ Len(C23_Templates(2)) = 1
    /\ Len(actionOutputs.build_args.items) = 3

\* a run whose first image is skipped and whose second is built
C23_WitnessSkipped ==
    /\ pc = "done"
    /\ Len(registry) = 2
    /\ ~C23_Built(1) /\ C23_Built(2)
    /\ Len(actionOutputs.build_args.items) = Len(C23_Templates(2))


-----------------------------------------------------------------------------
(* C24: a tag push ignores the watch gate.  On a push of a tag (a ref      *)
(* refs/tags/<name> with a non-empty name), every processed image whose    *)
(* effective imageTagsOnTagPushed is not null had                          *)
(* its registry check requested and, unless the run threw, has one         *)
(* instruction per tag template in the output, whatever its watchFiles and *)
(* whatever the changed-file list: also when its watchFiles is non-empty   *)
(* and no changed file matches any of its patterns.                        *)
C24_NoWatchedFileChanged(i) ==
    /\ imageBuildSpecs.items[i].watchFiles.items # << >>
    /\ \A w \in DOMAIN imageBuildSpecs.items[i].watchFiles.items :
          \A f \in DOMAIN changedFiles.items :
              ~matchesPattern(changedFiles.items[f],
                              imageBuildSpecs.items[i].watchFiles.items[w])

C24_TagPushIgnoresWatchGate ==
    (LoopStarted /\ Truthy(gitRef.tag)) =>
        \A i \in DOMAIN registry :
            imageBuildSpecs.items[i].imageTagsOnTagPushed.kind # "null" =>
                /\ registry[i] # NoRequest
                /\ (error = NoError /\ i < idx) => EmittedLocally(i)

\* a tag push builds an image none of whose watched files changed
C24_Witness ==
    /\ pc = "done"
    /\ Truthy(gitRef.tag)
    /\ \E i \in DOMAIN registry :
          /\ C24_NoWatchedFileChanged(i)
          /\ imageBuildSpecs.items[i].imageTagsOnTagPushed.kind # "null"
          /\ \E o \in DOMAIN actionOutputs.build_args.items :
                actionOutputs.build_args.items[o].imageName =
                    imageBuildSpecs.items[i].imageName


-----------------------------------------------------------------------------
(* C25: discovery recovers from unreadable subdirectories.  For a working  *)
(* tree whose root can be read, findDockerfiles raises no error and        *)
(* returns the Dockerfiles, in walk order, of the tree with every          *)
(* unreadable subdirectory left out: the unreadable subdirectory is        *)
(* skipped and its siblings are still searched.                            *)
RECURSIVE C25_WithoutUnreadable(_)
C25_WithoutUnreadable(dir) ==
    LET kept == SelectSeq(dir.entries, LAMBDA e : e.kind = "file" \/ e.readable)
    IN  [ dir EXCEPT !.entries =
            [ j \in DOMAIN kept |->
                IF kept[j].kind = "dir" THEN C25_WithoutUnreadable(kept[j]) ELSE kept[j] ] ]

C25_SkipsUnreadableSubdirectories ==
    (call.fn = "findDockerfiles" /\ ret # Undefined /\ call.tree.readable) =>
        /\ ret.val.ok
        /\ ret.val = findDockerfiles(C25_WithoutUnreadable(call.tree))


-----------------------------------------------------------------------------
(* C26: rendering is idempotent on full variable sets.  Whenever every     *)
(* {name} placeholder of the templates has its name among the keys of      *)
(* vars, rendering the result of generateTags(templates, vars) once more   *)
(* with the same vars gives that result again.                             *)
C26_Keys(variables) == [ e \in DOMAIN variables |-> variables[e].key ]

C26_FullVariableSet(templates, variables) ==
    C14_Outside(templates, C26_Keys(variables)) = { }

C26_RenderingIdempotent ==
    (/\ call.fn = "generateTags"
     /\ ret # Undefined
     /\ C26_FullVariableSet(call.templates, call.variables))
    => generateTags(ret.val, call.variables) = ret.val


-----------------------------------------------------------------------------
(* C27: no placeholder of an allowed variable survives.  In every run that *)
(* returned, no imageTag of a returned instruction contains {tag},         *)
(* {branch}, {sha} or {timestamp}, on branch pushes and on tag pushes and  *)
(* for every timezone input.                                               *)
C27_Unrendered(imageTag) ==
    \E k \in DOMAIN AvailableVariables : Includes(imageTag, Placeholder(AvailableVariables[k]))

C27_NoPlaceholderEmitted ==
    pc \in { "returned", "done" } =>
        \A o \in DOMAIN buildArgs.items : ~C27_Unrendered(buildArgs.items[o].imageTag)


-----------------------------------------------------------------------------
(* C28: no tag is scheduled twice.  In every run that returned, no two     *)
(* instructions of the returned list carry the same imageName and the same *)
(* imageTag unless that tag is latest.                                     *)
C28_NoTagScheduledTwice ==
    pc \in { "returned", "done" } =>
        \A o, q \in DOMAIN buildArgs.items :
            (/\ o # q
             /\ buildArgs.items[o].imageName = buildArgs.items[q].imageName
             /\ buildArgs.items[o].imageTag = buildArgs.items[q].imageTag)
            => buildArgs.items[o].imageTag = LATEST


-----------------------------------------------------------------------------
(* C29: a skipped image is never looked up.  For every processed image     *)
(* that is skipped (its effective templates for the triggering event are   *)
(* null, or on a branch push its watchFiles is non-empty and no changed    *)
(* file matches any of its patterns) no registry request was made and no   *)
(* tag was looked up; the run does not throw while processing it, and it   *)
(* contributes no instruction.                                             *)
C29_Skipped(i) ==
    \/ imageBuildSpecs.items[i][EventKey].kind = "null"
    \/ Truthy(gitRef.branch) /\ C24_NoWatchedFileChanged(i)

C29_SkippedNeverLookedUp ==
    LoopStarted =>
        \A i \in DOMAIN registry :
            C29_Skipped(i) =>
                /\ registry[i] = NoRequest
                /\ lookups[i] = << >>
                /\ i = Len(registry) => error = NoError
                /\ \A o \in DOMAIN outputs :
                      outputs[o].dockerfilePath # dockerfiles.items[i].path

\* a branch push that leaves an image out because none of its watched files
\* changed, builds another one and succeeds
C29_Witness ==
    /\ pc = "done"
    /\ Truthy(gitRef.branch)
    /\ \E i \in DOMAIN registry :
          /\ imageBuildSpecs.items[i][EventKey].kind # "null"
          /\ C24_NoWatchedFileChanged(i)
          /\ registry[i] = NoRequest
    /\ \E i \in DOMAIN registry : registry[i] # NoRequest


-----------------------------------------------------------------------------
(* C30: checked equals emitted.  In a run that has not thrown there is one *)
(* reading of the clock such that, with the variables created from the     *)
(* event, the timezone and that reading, every built image's emitted tags  *)
(* are its templates rendered with those variables, and the set of tags    *)
(* looked up in the registry, under the image's name, is exactly the set   *)
(* of its emitted tags other than latest: all images carry the same        *)
(* {timestamp}                                                             *)
(* and {sha} although the clock may read differently later in the run.     *)
C30_EmittedTags(i) ==
    [ t \in DOMAIN C23_Templates(i) |-> outputs[C23_Count(i - 1) + t].imageTag ]

C30_CheckedEqualsEmitted ==
    (LoopStarted /\ error = NoError) =>
        \E now \in Clocks :
            LET variables == createTemplateVariables(gitRef.branch, gitRef.tag, timezone,
                                                     payload.after.s, now)
            IN  \A i \in DOMAIN registry :
                    C23_Built(i) =>
                        /\ C30_EmittedTags(i) = generateTags(C23_Templates(i), variables)
                        /\ { lookups[i][l].tag : l \in DOMAIN lookups[i] }
                              = Range(C30_EmittedTags(i)) \ { LATEST }
                        /\ \A l \in DOMAIN lookups[i] :
                              lookups[i][l].image = imageBuildSpecs.items[i].imageName

\* two images built in one run, each with a tag holding the timestamp
C30_Witness ==
    /\ pc = "done"
    /\ timezone # << >>
    /\ Len(registry) = 2
    /\ \A i \in 1..2 :
          /\ C23_Built(i)
          /\ lookups[i] # << >>
          /\ \E t \in DOMAIN C30_EmittedTags(i), now \in Clocks :
                Includes(C30_EmittedTags(i)[t], now)

====
